---- MODULE Spec2Model ----
(***************************************************************************)
(* Asteroid belt simulation: Keplerian orbit solver (js/orbital.js), the   *)
(* Asteroid body entity (js/asteroid.js) and the QuadTree spatial index    *)
(* (js/selection.js).                                                      *)
(*                                                                         *)
(* Numbers.  The program computes in IEEE doubles.  Here a real quantity q *)
(* is the integer round(q * SCALE) (fixed point, three decimals), and the  *)
(* one value NaN stands for every non-finite double (NaN, +-Infinity)      *)
(* that a division by zero produces.  Library functions (Math.sqrt,        *)
(* Math.sin, Math.atan2, ...) are computed to that resolution.             *)
(***************************************************************************)
EXTENDS Integers, Sequences, FiniteSets, TLC

\* ------------------------------------------------------------------------
\* Fixed-point arithmetic standing in for IEEE double arithmetic
\* ------------------------------------------------------------------------
SCALE == 10 * 10 * 10

\* The non-finite double.  Every arithmetic operator below propagates it.
NaN == 0 - 2147483647

\* Largest magnitude represented; larger results saturate (the model's
\* counterpart of double overflow).
MAXREAL == 2 * SCALE * SCALE * SCALE

\* Largest magnitude that can be multiplied by SCALE without saturating
MAXSCALED == MAXREAL \div SCALE

IsNaN(q) == q = NaN

Abs(q) == IF q < 0 THEN 0 - q ELSE q

Sgn(q) == IF q < 0 THEN 0 - 1 ELSE IF q > 0 THEN 1 ELSE 0

Min(p, q) == IF p < q THEN p ELSE q

Max(p, q) == IF p > q THEN p ELSE q

\* p + q on doubles
FAdd(p, q) ==
    IF IsNaN(p) \/ IsNaN(q) THEN NaN
    ELSE IF p > 0 /\ q > MAXREAL - p THEN MAXREAL
    ELSE IF p < 0 /\ q < 0 - MAXREAL - p THEN 0 - MAXREAL
    ELSE p + q

\* -q on doubles
FNeg(q) == IF IsNaN(q) THEN NaN ELSE 0 - q

\* p - q on doubles
FSub(p, q) == FAdd(p, FNeg(q))

\* |q| on doubles
FAbs(q) == IF IsNaN(q) THEN NaN ELSE Abs(q)

\* p * q on doubles, rounded toward zero.  The product of the magnitudes is
\* formed from the whole and the fractional part of the larger one, so that
\* no intermediate exceeds the integer range.
MulParts(hi, lo, small) ==
    IF hi > 0 /\ small > MAXREAL \div hi THEN MAXREAL
    ELSE Min(MAXREAL, hi * small + (lo * small) \div SCALE)

MulMag(big, small) ==
    IF small = 0 THEN 0 ELSE MulParts(big \div SCALE, big % SCALE, small)

FMul(p, q) ==
    IF IsNaN(p) \/ IsNaN(q) THEN NaN
    ELSE Sgn(p) * Sgn(q) * MulMag(Max(Abs(p), Abs(q)), Min(Abs(p), Abs(q)))

\* p / q on doubles, rounded toward zero.  A zero divisor gives the
\* non-finite value (x/0 is +-Infinity or NaN in the program).
DivParts(whole, rest, aq) ==
    IF whole >= MAXSCALED THEN MAXREAL
    ELSE IF rest > MAXSCALED THEN whole * SCALE + rest \div (aq \div SCALE)
    ELSE whole * SCALE + (rest * SCALE) \div aq

FDiv(p, q) ==
    IF IsNaN(p) \/ IsNaN(q) \/ q = 0 THEN NaN
    ELSE Sgn(p) * Sgn(q) * DivParts(Abs(p) \div Abs(q), Abs(p) % Abs(q), Abs(q))

\* floor(sqrt(n)) of a natural number, by Newton's iteration from above
RECURSIVE ISqrtIter(_, _)
ISqrtStep(n, g, h) == IF h >= g THEN g ELSE ISqrtIter(n, h)

ISqrtIter(n, g) == ISqrtStep(n, g, (g + n \div g) \div 2)

ISqrt(n) == IF n < 2 THEN n ELSE ISqrtIter(n, Min(n, 46340))

\* Math.sqrt(q); the square root of a negative number is NaN
FSqrt(q) ==
    IF IsNaN(q) \/ q < 0 THEN NaN
    ELSE IF q <= MAXSCALED THEN ISqrt(q * SCALE)
    ELSE IF q <= MAXSCALED * 100 THEN ISqrt(q * 10) * 10
    ELSE ISqrt(q \div 10) * 100

\* Math.PI and its multiples
PI == 3142

TWO_PI == 2 * PI

HALF_PI == PI \div 2

\* Math.sin on [0, pi/2]: x - x^3/3! + x^5/5! - x^7/7!, q2 being x^2
SinPoly(q, q2) ==
    Min(SCALE,
        (q * ((5040 * SCALE
               - (q2 * (840 * SCALE - (q2 * (42 * SCALE - q2)) \div SCALE)) \div SCALE)
              \div 504)
         + 5 * SCALE) \div (10 * SCALE))

SinQuadrant(q) == SinPoly(q, (q * q) \div SCALE)

\* sin of an angle r in [0, 2*pi), by the symmetries of the sine
SinReduced(r) ==
    (IF r <= PI THEN 1 ELSE 0 - 1)
    * SinQuadrant(IF r <= HALF_PI THEN r
                  ELSE IF r <= PI THEN PI - r
                  ELSE IF r <= PI + HALF_PI THEN r - PI
                  ELSE TWO_PI - r)

\* 2*pi and pi/2 themselves, to six decimals.  Math.PI is pi rounded to
\* the resolution of the numbers, and Math.sin and Math.cos give the sine
\* and cosine of the number they are handed: sin(2 * Math.PI) is not sin(0).
TRUE_TWO_PI == 6283 * SCALE + 185

TRUE_HALF_PI == 1570 * SCALE + 796

\* an angle in units of 1 / SCALE^2 brought into one turn and rounded to the
\* resolution
turnOf(m) == ((m % TRUE_TWO_PI) + SCALE \div 2) \div SCALE

\* Math.sin(q)
Sin(q) ==
    IF IsNaN(q) THEN NaN
    ELSE IF Abs(q) >= MAXSCALED THEN SinReduced(q % TWO_PI)
    ELSE SinReduced(turnOf(q * SCALE))

\* Math.cos(q)
Cos(q) ==
    IF IsNaN(q) THEN NaN
    ELSE IF Abs(q) >= MAXSCALED THEN SinReduced((q + HALF_PI) % TWO_PI)
    ELSE SinReduced(turnOf(q * SCALE + TRUE_HALF_PI))

\* Math.tan(q) from sin(q) and cos(q); at an odd multiple of pi/2 the program
\* gets a huge finite value, here the largest magnitude
TanOf(sinQ, cosQ) ==
    IF IsNaN(sinQ) THEN NaN
    ELSE IF cosQ = 0 THEN Sgn(sinQ) * MAXREAL
    ELSE FDiv(sinQ, cosQ)

Tan(q) == TanOf(Sin(q), Cos(q))

\* atan of a ratio t with |t| <= tan(pi/8): t - t^3/3 + t^5/5 - t^7/7, t2
\* being t^2
AtanPoly(t, t2) ==
    (t * (105 * SCALE
          - (t2 * (35 * SCALE - (t2 * (21 * SCALE - 15 * t2)) \div SCALE)) \div SCALE)
     + 52 * SCALE) \div (105 * SCALE)

AtanSmall(t) == Sgn(t) * AtanPoly(Abs(t), (t * t) \div SCALE)

\* tan(pi/8), the bound of the series above
TAN_PI_8 == (414 * SCALE) \div 1000

\* atan of a ratio in [0, 1]: atan(t) = pi/4 + atan((t - 1)/(t + 1))
AtanUnit(t) ==
    IF t <= TAN_PI_8 THEN AtanSmall(t)
    ELSE HALF_PI \div 2 + AtanSmall(0 - (((SCALE - t) * SCALE) \div (SCALE + t)))

\* Math.atan(q), for q >= 0: atan(q) = pi/2 - atan(1/q) above 1
AtanPos(q) ==
    IF q <= SCALE THEN AtanUnit(q)
    ELSE HALF_PI - AtanUnit((SCALE * SCALE) \div q)

\* Math.atan(q), in [-pi/2, pi/2]
Atan(q) == IF IsNaN(q) THEN NaN ELSE Sgn(q) * AtanPos(Abs(q))

\* Math.atan2(y, x), in (-pi, pi], t being atan(|y| / |x|)
Atan2Quadrant(y, x, t) ==
    IF x > 0 THEN Sgn(y) * t
    ELSE IF y >= 0 THEN PI - t ELSE t - PI

Atan2(y, x) ==
    IF IsNaN(y) \/ IsNaN(x) THEN NaN
    ELSE IF x = 0 /\ y = 0 THEN 0
    ELSE IF x = 0 THEN Sgn(y) * HALF_PI
    ELSE Atan2Quadrant(y, x, Atan(FDiv(Abs(y), Abs(x))))

\* Math.acos(c) for c in [-1, 1], in [0, pi]
Acos(c) ==
    IF IsNaN(c) THEN NaN
    ELSE Atan2(FSqrt(SCALE - FMul(c, c)), c)

\* Comparisons on doubles: every comparison with NaN is false
FGe(p, q) == ~IsNaN(p) /\ ~IsNaN(q) /\ p >= q

FLt(p, q) == ~IsNaN(p) /\ ~IsNaN(q) /\ p < q

\* ------------------------------------------------------------------------
\* js/constants.js
\* ------------------------------------------------------------------------
MU == 1000 * SCALE

AU_TO_PIXELS == 150 * SCALE

\* Belt, in AU, and the ranges of the constructor's draws
BELT_INNER_RADIUS == 2 * SCALE

BELT_OUTER_RADIUS == (35 * SCALE) \div 10

MIN_ECCENTRICITY == 0

MAX_ECCENTRICITY == (3 * SCALE) \div 10

MIN_ASTEROID_RADIUS == 2 * SCALE

MAX_ASTEROID_RADIUS == 20 * SCALE

\* Delta-v per unit of the panel's slider, and the slider's range
DELTA_V_SCALE == SCALE \div 10

MAX_DELTA_V == 5 * SCALE

\* Pick tolerance in pixels
CLICK_TOLERANCE == 8 * SCALE

\* Simulation time per millisecond of frame time (0.001)
TIME_SCALE == 1

ORBIT_PATH_POINTS == 100

KEPLER_MAX_ITERATIONS == 50

\* 1e-8, below the resolution: the smallest positive step
KEPLER_TOLERANCE == 1

\* 1e-10 (the circular-orbit threshold).  In the program it lies above the
\* eccentricity that rounding leaves of a circular orbit (1e-16) and below
\* every eccentricity of an ellipse in use; here that is 0.01, rounding
\* leaving up to 0.006.
CIRCULAR_THRESHOLD == 10

\* 0.8, the eccentricity above which the solver starts from pi
HIGH_ECCENTRICITY == (8 * SCALE) \div 10

\* ------------------------------------------------------------------------
\* js/utils.js (math helpers)
\* ------------------------------------------------------------------------
\* angle reduced into [0, 2*pi)
normalizeAngle(angle) == IF IsNaN(angle) THEN NaN ELSE angle % TWO_PI

\* Math.sqrt(x * x + y * y).  The squares of small components are kept in
\* full (they are not rounded to the resolution before the root is taken).
SMALL_COMPONENT == 2 ^ 15 - 1

magnitude(px, py) ==
    IF IsNaN(px) \/ IsNaN(py) THEN NaN
    ELSE IF Abs(px) <= SMALL_COMPONENT /\ Abs(py) <= SMALL_COMPONENT
         THEN ISqrt(px * px + py * py)
    ELSE FSqrt(FAdd(FMul(px, px), FMul(py, py)))

cross(ax, ay, bx, by) == FSub(FMul(ax, by), FMul(ay, bx))

dot(ax, ay, bx, by) == FAdd(FMul(ax, bx), FMul(ay, by))

\* ------------------------------------------------------------------------
\* js/orbital.js
\* ------------------------------------------------------------------------
\* The "no orbit" result of computeOrbitFromStateVectors
null == [null |-> TRUE]

\* A variant of the loop body that returns after its first step
KeplerStepOnce(M, e, E, i, deltaE) == [E |-> FSub(E, deltaE), iterations |-> i + 1]

\* solveKeplerEquation's Newton-Raphson loop: E is the current estimate, i
\* the number of iterations done.  The result carries the iteration count.
RECURSIVE KeplerLoop(_, _, _, _)
KeplerStep(M, e, E, i, deltaE) ==
    IF FLt(FAbs(deltaE), KEPLER_TOLERANCE)
    THEN [E |-> FSub(E, deltaE), iterations |-> i + 1]
    ELSE KeplerLoop(M, e, FSub(E, deltaE), i + 1)

KeplerLoop(M, e, E, i) ==
    IF i >= KEPLER_MAX_ITERATIONS THEN [E |-> E, iterations |-> i]
    ELSE KeplerStep(M, e, E, i,
                    FDiv(FSub(FSub(E, FMul(e, Sin(E))), M),
                         FSub(SCALE, FMul(e, Cos(E)))))

\* A variant of the initial guess that is the normalized M for every e
KeplerStartFromM(Mn, e) == KeplerLoop(Mn, e, Mn, 0)

\* the initial guess: the normalized M, or pi for a high eccentricity
KeplerStart(Mn, e) ==
    KeplerLoop(Mn, e, IF FLt(HIGH_ECCENTRICITY, e) THEN PI ELSE Mn, 0)

solveKeplerRun(M, e) == KeplerStart(normalizeAngle(M), e)

solveKeplerEquation(M, e) == solveKeplerRun(M, e).E

trueAnomalyFromEccentric(E, e) ==
    FMul(2 * SCALE,
         Atan2(FMul(FSqrt(FAdd(SCALE, e)), Sin(FDiv(E, 2 * SCALE))),
               FMul(FSqrt(FSub(SCALE, e)), Cos(FDiv(E, 2 * SCALE)))))

\* normalize(M0 + n*t) with n = sqrt(MU / a^3); n*t is formed as
\* sqrt(MU / a) * t / a so that a^3 and n stay within range and resolution
meanAnomalyAtTime(orbit, t) ==
    normalizeAngle(FAdd(orbit.M0, FDiv(FMul(FSqrt(FDiv(MU, orbit.a)), t), orbit.a)))

\* A variant of the period that divides by a: 2*pi*sqrt(MU / a^3)
periodOfMeanMotion(a) ==
    IF a = 0 THEN 0
    ELSE FMul(TWO_PI, FDiv(FSqrt(FDiv(MU, a)), a))

\* 2*pi*sqrt(a^3 / MU), formed as 2*pi*a / sqrt(MU / a); sqrt(0 / MU) is 0
orbitalPeriod(a) ==
    IF a = 0 THEN 0
    ELSE FMul(TWO_PI, FDiv(a, FSqrt(FDiv(MU, a))))

\* rotation of a vector of the orbital plane by the argument of periapsis
rotateByOmega(px, py, cosOmega, sinOmega) ==
    [x |-> FSub(FMul(px, cosOmega), FMul(py, sinOmega)),
     y |-> FAdd(FMul(px, sinOmega), FMul(py, cosOmega))]

\* distance from the focus: a(1 - e^2) / (1 + e cos(theta))
focalDistance(a, e, cosTheta) ==
    FDiv(FMul(a, FSub(SCALE, FMul(e, e))), FAdd(SCALE, FMul(e, cosTheta)))

positionInPlane(r, cosTheta, sinTheta, omega) ==
    rotateByOmega(FMul(r, cosTheta), FMul(r, sinTheta), Cos(omega), Sin(omega))

positionFromCosSin(orbit, cosTheta, sinTheta) ==
    positionInPlane(focalDistance(orbit.a, orbit.e, cosTheta), cosTheta, sinTheta, orbit.omega)

getPositionFromTrueAnomaly(orbit, theta) ==
    positionFromCosSin(orbit, Cos(theta), Sin(theta))

getTrueAnomalyAtTime(orbit, t) ==
    trueAnomalyFromEccentric(solveKeplerEquation(meanAnomalyAtTime(orbit, t), orbit.e), orbit.e)

getPositionAtTime(orbit, t) ==
    getPositionFromTrueAnomaly(orbit, getTrueAnomalyAtTime(orbit, t))

\* velocity in the orbital frame from the radial part vr and the tangential
\* part vTheta, rotated by the argument of periapsis
velocityInPlane(vr, vTheta, cosTheta, sinTheta, omega) ==
    LET rotated == rotateByOmega(FSub(FMul(vr, cosTheta), FMul(vTheta, sinTheta)),
                                 FAdd(FMul(vr, sinTheta), FMul(vTheta, cosTheta)),
                                 Cos(omega), Sin(omega))
    IN  [vx |-> rotated.x, vy |-> rotated.y]

\* muOverH is MU / h with h = sqrt(MU * p), p = a(1 - e^2)
velocityFromCosSin(orbit, muOverH, cosTheta, sinTheta) ==
    velocityInPlane(FMul(FMul(muOverH, orbit.e), sinTheta),
                    FMul(muOverH, FAdd(SCALE, FMul(orbit.e, cosTheta))),
                    cosTheta, sinTheta, orbit.omega)

velocityFromTrueAnomaly(orbit, theta) ==
    velocityFromCosSin(orbit,
        FDiv(MU, FSqrt(FMul(MU, FMul(orbit.a, FSub(SCALE, FMul(orbit.e, orbit.e)))))),
        Cos(theta), Sin(theta))

getVelocityAtTime(orbit, t) ==
    velocityFromTrueAnomaly(orbit, getTrueAnomalyAtTime(orbit, t))

\* Specific orbital energy |v|^2 / 2 - MU / |r|.  At |r| = 0 the program
\* gets MU / 0 = Infinity and so -Infinity for every finite speed: that one
\* non-finite value is ordered (it is below 0), so it is kept apart here.
MINUS_INFINITY == 0 - MAXREAL

\* A variant of the energy whose kinetic part is not halved
energyWithoutHalf(rMag, vMag) ==
    IF rMag = 0 /\ ~IsNaN(vMag) THEN MINUS_INFINITY
    ELSE FSub(FMul(vMag, vMag), FDiv(MU, rMag))

specificEnergy(rMag, vMag) ==
    IF rMag = 0 /\ ~IsNaN(vMag) THEN MINUS_INFINITY
    ELSE FSub(FDiv(FMul(vMag, vMag), 2 * SCALE), FDiv(MU, rMag))

\* computeOrbitFromStateVectors, last part: mean anomaly from the eccentric
\* anomaly E
elementsFromEccentricAnomaly(a, e, omega, E) ==
    [a |-> a, e |-> e, omega |-> omega,
     M0 |-> normalizeAngle(FSub(E, FMul(e, Sin(E))))]

\* eccentric anomaly from the true anomaly theta
elementsFromTrueAnomaly(a, e, omega, theta) ==
    elementsFromEccentricAnomaly(a, e, omega,
        FMul(2 * SCALE,
             Atan(FMul(FSqrt(FDiv(FSub(SCALE, e), FAdd(SCALE, e))),
                       Tan(FDiv(theta, 2 * SCALE))))))

\* Math.max(-1, Math.min(1, c))
clampCosine(c) == IF IsNaN(c) THEN NaN ELSE Max(0 - SCALE, Min(SCALE, c))

\* A variant of the true anomaly that leaves out the sign taken from the
\* radial velocity
trueAnomalyUnsigned(rx, ry, rMag, rdotv, ex, ey, e, omega) ==
    IF FLt(e, CIRCULAR_THRESHOLD) THEN FSub(Atan2(ry, rx), omega)
    ELSE Acos(clampCosine(FDiv(dot(ex, ey, rx, ry), FMul(e, rMag))))

\* true anomaly: the position angle for a circular orbit, else from the
\* angle between the eccentricity vector and the position, signed by the
\* radial velocity
trueAnomalyFromVectors(rx, ry, rMag, rdotv, ex, ey, e, omega) ==
    IF FLt(e, CIRCULAR_THRESHOLD) THEN FSub(Atan2(ry, rx), omega)
    ELSE IF FLt(rdotv, 0)
         THEN FSub(TWO_PI, Acos(clampCosine(FDiv(dot(ex, ey, rx, ry), FMul(e, rMag)))))
    ELSE Acos(clampCosine(FDiv(dot(ex, ey, rx, ry), FMul(e, rMag))))

\* Math.atan2(ey, ex) brought into [0, 2*pi)
argumentOfPeriapsis(omega) == IF FLt(omega, 0) THEN FAdd(omega, TWO_PI) ELSE omega

elementsFromEccentricity(rx, ry, rMag, rdotv, a, ex, ey, e, omega) ==
    elementsFromTrueAnomaly(a, e, omega,
        trueAnomalyFromVectors(rx, ry, rMag, rdotv, ex, ey, e, omega))

\* eccentricity and argument of periapsis from the eccentricity vector
elementsFromEccentricityVector(rx, ry, rMag, rdotv, a, ex, ey) ==
    elementsFromEccentricity(rx, ry, rMag, rdotv, a, ex, ey,
        magnitude(ex, ey), argumentOfPeriapsis(Atan2(ey, ex)))

\* semi-major axis -MU / (2 * energy); -MU / (2 * -Infinity) is 0
semiMajorAxis(energy) ==
    IF energy = MINUS_INFINITY THEN 0
    ELSE FDiv(FNeg(MU), FMul(2 * SCALE, energy))

\* A variant of the escape check that lets a parabolic trajectory through
elementsFromPositiveEnergy(rx, ry, vx, vy, rMag, energy, rdotv, term1) ==
    IF FGe(energy, 1) THEN null
    ELSE elementsFromEccentricityVector(rx, ry, rMag, rdotv, semiMajorAxis(energy),
            FDiv(FSub(FMul(term1, rx), FMul(rdotv, vx)), MU),
            FDiv(FSub(FMul(term1, ry), FMul(rdotv, vy)), MU))

\* A variant without the escape check
elementsWithoutEscapeCheck(rx, ry, vx, vy, rMag, energy, rdotv, term1) ==
    elementsFromEccentricityVector(rx, ry, rMag, rdotv, semiMajorAxis(energy),
        FDiv(FSub(FMul(term1, rx), FMul(rdotv, vx)), MU),
        FDiv(FSub(FMul(term1, ry), FMul(rdotv, vy)), MU))

\* the escape check, then the elements of the closed orbit
elementsFromEnergy(rx, ry, vx, vy, rMag, energy, rdotv, term1) ==
    IF FGe(energy, 0) THEN null
    ELSE elementsFromEccentricityVector(rx, ry, rMag, rdotv, semiMajorAxis(energy),
            FDiv(FSub(FMul(term1, rx), FMul(rdotv, vx)), MU),
            FDiv(FSub(FMul(term1, ry), FMul(rdotv, vy)), MU))

elementsFromMagnitudes(rx, ry, vx, vy, rMag, vMag) ==
    elementsFromEnergy(rx, ry, vx, vy, rMag,
        specificEnergy(rMag, vMag),
        dot(rx, ry, vx, vy),
        FSub(FMul(vMag, vMag), FDiv(MU, rMag)))

computeOrbitFromStateVectors(r, v) ==
    elementsFromMagnitudes(r.x, r.y, v.vx, v.vy, magnitude(r.x, r.y), magnitude(v.vx, v.vy))

generateOrbitPath(orbit, numPoints) ==
    [k \in 1..(numPoints + 1) |->
        getPositionFromTrueAnomaly(orbit,
            FMul(FDiv((k - 1) * SCALE, numPoints * SCALE), TWO_PI))]

\* ------------------------------------------------------------------------
\* js/asteroid.js: a body is a record of the fields of class Asteroid
\* ------------------------------------------------------------------------
\* generateAsteroidColor(id) of js/utils.js: a colour determined by the id
generateAsteroidColor(id) == <<"hsl", id>>

\* the constructor's assignments, given the orbit it drew
newAsteroid(id, orbit, radius) ==
    [id |-> id,
     orbit |-> orbit,
     radius |-> radius,
     color |-> generateAsteroidColor(id),
     orbitPath |-> generateOrbitPath(orbit, ORBIT_PATH_POINTS),
     x |-> 0, y |-> 0, vx |-> 0, vy |-> 0,
     period |-> orbitalPeriod(orbit.a)]

\* constructor(id); aAU, e, omega, M0 and radius are its random draws
Asteroid(id, aAU, e, omega, M0, radius) ==
    newAsteroid(id, [a |-> FMul(aAU, AU_TO_PIXELS), e |-> e, omega |-> omega, M0 |-> M0],
                radius)

\* static fromOrbit(id, orbit, radius, color): every field the constructor
\* draws at random is overwritten, so the draws are fixed here
fromOrbit(id, orbit, radius, color) ==
    [Asteroid(id, 2 * SCALE, 0, 0, 0, 2 * SCALE)
        EXCEPT !.orbit = orbit,
               !.radius = radius,
               !.color = color,
               !.orbitPath = generateOrbitPath(orbit, ORBIT_PATH_POINTS),
               !.period = orbitalPeriod(orbit.a)]

\* update(t): the assignments of pos and vel
moveTo(this, pos, vel) ==
    [this EXCEPT !.x = pos.x, !.y = pos.y, !.vx = vel.vx, !.vy = vel.vy]

\* A variant of update that also stores the mean anomaly it moved to
updateStoringAnomaly(this, t) ==
    [moveTo(this, getPositionAtTime(this.orbit, t), getVelocityAtTime(this.orbit, t))
        EXCEPT !.orbit.M0 = meanAnomalyAtTime(this.orbit, t)]

update(this, t) ==
    moveTo(this, getPositionAtTime(this.orbit, t), getVelocityAtTime(this.orbit, t))

\* A variant of the commit that assigns the velocity before the test
commitVelocityFirst(this, newVx, newVy, newOrbit) ==
    IF newOrbit # null
    THEN [this |-> [this EXCEPT !.orbit = newOrbit,
                                !.orbitPath = generateOrbitPath(newOrbit, ORBIT_PATH_POINTS),
                                !.period = orbitalPeriod(newOrbit.a),
                                !.vx = newVx,
                                !.vy = newVy],
          result |-> TRUE,
          newOrbit |-> newOrbit]
    ELSE [this |-> [this EXCEPT !.vx = newVx, !.vy = newVy],
          result |-> FALSE, newOrbit |-> newOrbit]

\* A variant of the commit that keeps the old path and period
commitOrbitOnly(this, newVx, newVy, newOrbit) ==
    IF newOrbit # null
    THEN [this |-> [this EXCEPT !.orbit = newOrbit, !.vx = newVx, !.vy = newVy],
          result |-> TRUE,
          newOrbit |-> newOrbit]
    ELSE [this |-> this, result |-> FALSE, newOrbit |-> newOrbit]

\* A variant of the commit that replaces the orbit and leaves the velocity
commitWithoutVelocity(this, newVx, newVy, newOrbit) ==
    IF newOrbit # null
    THEN [this |-> [this EXCEPT !.orbit = newOrbit,
                                !.orbitPath = generateOrbitPath(newOrbit, ORBIT_PATH_POINTS),
                                !.period = orbitalPeriod(newOrbit.a)],
          result |-> TRUE,
          newOrbit |-> newOrbit]
    ELSE [this |-> this, result |-> FALSE, newOrbit |-> newOrbit]

\* applyDeltaV, from `if (newOrbit)` on: the body afterwards, the value
\* returned, and the value computeOrbitFromStateVectors gave
commitDeltaV(this, newVx, newVy, newOrbit) ==
    IF newOrbit # null
    THEN [this |-> [this EXCEPT !.orbit = newOrbit,
                                !.orbitPath = generateOrbitPath(newOrbit, ORBIT_PATH_POINTS),
                                !.period = orbitalPeriod(newOrbit.a),
                                !.vx = newVx,
                                !.vy = newVy],
          result |-> TRUE,
          newOrbit |-> newOrbit]
    ELSE [this |-> this, result |-> FALSE, newOrbit |-> newOrbit]

orbitAfterDeltaV(this, newVx, newVy) ==
    commitDeltaV(this, newVx, newVy,
        computeOrbitFromStateVectors([x |-> this.x, y |-> this.y],
                                     [vx |-> newVx, vy |-> newVy]))

\* applyDeltaV(dvx, dvy, t); t is not read
applyDeltaV(this, dvx, dvy, t) ==
    orbitAfterDeltaV(this, FAdd(this.vx, dvx), FAdd(this.vy, dvy))

\* setOrbit(orbit)
setOrbit(this, orbit) ==
    [this EXCEPT !.orbit = orbit,
                 !.orbitPath = generateOrbitPath(orbit, ORBIT_PATH_POINTS),
                 !.period = orbitalPeriod(orbit.a)]

\* ------------------------------------------------------------------------
\* selection.js: QuadTree
\* Coordinates are whole numbers of grid steps, the finest spacing the
\* coordinates resolve. Halving a width is exact down to one step, as it is
\* for a double; half of one step is below the resolution, and x + w is x.
\* ------------------------------------------------------------------------
\* constructor(bounds, capacity)
QuadTree(bounds, capacity) ==
    [bounds |-> bounds,
     capacity |-> capacity,
     objects |-> <<>>,
     divided |-> FALSE,
     northeast |-> null,
     northwest |-> null,
     southeast |-> null,
     southwest |-> null]

\* containsPoint(x, y)
containsPoint(this, x, y) ==
    /\ FGe(x, this.bounds.x)
    /\ FLt(x, this.bounds.x + this.bounds.width)
    /\ FGe(y, this.bounds.y)
    /\ FLt(y, this.bounds.y + this.bounds.height)

\* intersectsCircle: the squared distance from the centre to the closest
\* point of the rectangle against the squared radius
\* The squares are formed in two parts, whole multiples of SCALE * SCALE and
\* the rest, so that no intermediate exceeds the integer range; the
\* comparison is exact.
squareRest(a, b) == ((2 * a * b) % SCALE) * SCALE + b * b

squareHigh(n) ==
    (n \div SCALE) * (n \div SCALE) + (2 * (n \div SCALE) * (n % SCALE)) \div SCALE
        + squareRest(n \div SCALE, n % SCALE) \div (SCALE * SCALE)

squareLow(n) == squareRest(n \div SCALE, n % SCALE) % (SCALE * SCALE)

sumAtMost(high, low, boundHigh, boundLow) ==
    IF high - boundHigh < 0 - 2 THEN TRUE
    ELSE IF high - boundHigh > 1 THEN FALSE
    ELSE (high - boundHigh) * SCALE * SCALE + low <= boundLow

withinRadius(dx, dy, radius) ==
    sumAtMost(squareHigh(Abs(dx)) + squareHigh(Abs(dy)),
              squareLow(Abs(dx)) + squareLow(Abs(dy)),
              squareHigh(Abs(radius)), squareLow(Abs(radius)))

\* A variant of intersectsCircle that asks for the centre to be in the node
centreInside(this, cx, cy, radius) == containsPoint(this, cx, cy)

intersectsCircle(this, cx, cy, radius) ==
    withinRadius(
        cx - Max(this.bounds.x, Min(cx, this.bounds.x + this.bounds.width)),
        cy - Max(this.bounds.y, Min(cy, this.bounds.y + this.bounds.height)),
        radius)

\* subdivide(): the four children for the halves w and h
childrenOf(this, x, y, w, h) ==
    [this EXCEPT
        !.northeast = QuadTree([x |-> x + w, y |-> y, width |-> w, height |-> h], this.capacity),
        !.northwest = QuadTree([x |-> x, y |-> y, width |-> w, height |-> h], this.capacity),
        !.southeast = QuadTree([x |-> x + w, y |-> y + h, width |-> w, height |-> h], this.capacity),
        !.southwest = QuadTree([x |-> x, y |-> y + h, width |-> w, height |-> h], this.capacity),
        !.divided = TRUE]

\* A variant of subdivide whose children are one grid step smaller than
\* their parent instead of half its size
subdivideByOneStep(this) ==
    childrenOf(this, this.bounds.x, this.bounds.y,
               this.bounds.width - 1, this.bounds.height - 1)

subdivide(this) ==
    childrenOf(this, this.bounds.x, this.bounds.y,
               this.bounds.width \div 2, this.bounds.height \div 2)

\* A variant of the clearing that leaves the list as it is
keepObjects(this) == this

\* insert: `this.objects = []` after the existing objects have been moved
clearObjects(this) == [this EXCEPT !.objects = <<>>]

\* insert(obj): the node afterwards and the value returned
RECURSIVE insert(_, _)
RECURSIVE insertIntoChildren(_, _)
RECURSIVE moveExisting(_, _, _)

\* the || chain over the children: each is tried only if those before it
\* returned false, and keeps whatever the attempt did to it
intoSouthwest(this, done) ==
    [node |-> [this EXCEPT !.southwest = done.node], result |-> done.result]

intoSoutheast(this, obj, done) ==
    IF done.result
    THEN [node |-> [this EXCEPT !.southeast = done.node], result |-> TRUE]
    ELSE intoSouthwest([this EXCEPT !.southeast = done.node], insert(this.southwest, obj))

intoNorthwest(this, obj, done) ==
    IF done.result
    THEN [node |-> [this EXCEPT !.northwest = done.node], result |-> TRUE]
    ELSE intoSoutheast([this EXCEPT !.northwest = done.node], obj, insert(this.southeast, obj))

intoNortheast(this, obj, done) ==
    IF done.result
    THEN [node |-> [this EXCEPT !.northeast = done.node], result |-> TRUE]
    ELSE intoNorthwest([this EXCEPT !.northeast = done.node], obj, insert(this.northwest, obj))

insertIntoChildren(this, obj) == intoNortheast(this, obj, insert(this.northeast, obj))

\* the loop over the existing objects, from index k on
moveExisting(this, existing, k) ==
    IF k > Len(existing) THEN this
    ELSE moveExisting(insertIntoChildren(this, existing[k]).node, existing, k + 1)

insert(this, obj) ==
    IF ~containsPoint(this, obj.x, obj.y)
    THEN [node |-> this, result |-> FALSE]
    ELSE IF Len(this.objects) < this.capacity /\ ~this.divided
    THEN [node |-> [this EXCEPT !.objects = Append(@, obj)], result |-> TRUE]
    ELSE IF ~this.divided
    THEN insertIntoChildren(clearObjects(moveExisting(subdivide(this), this.objects, 1)), obj)
    ELSE insertIntoChildren(this, obj)

\* queryCircle(cx, cy, radius, found)
RECURSIVE queryCircle(_, _, _, _, _)
RECURSIVE objectsInCircle(_, _, _, _, _, _)

\* the loop over this.objects, from index k on
objectsInCircle(objects, k, cx, cy, radius, found) ==
    IF k > Len(objects) THEN found
    ELSE objectsInCircle(objects, k + 1, cx, cy, radius,
            IF withinRadius(objects[k].x - cx, objects[k].y - cy, radius)
            THEN Append(found, objects[k])
            ELSE found)

queryChildren(this, cx, cy, radius, found) ==
    IF this.divided
    THEN queryCircle(this.southwest, cx, cy, radius,
            queryCircle(this.southeast, cx, cy, radius,
                queryCircle(this.northwest, cx, cy, radius,
                    queryCircle(this.northeast, cx, cy, radius, found))))
    ELSE found

queryCircle(this, cx, cy, radius, found) ==
    IF ~intersectsCircle(this, cx, cy, radius) THEN found
    ELSE queryChildren(this, cx, cy, radius,
            objectsInCircle(this.objects, 1, cx, cy, radius, found))

\* ------------------------------------------------------------------------
\* asteroid.js: Asteroid.containsPoint(wx, wy, tolerance), the exact hit test
\* dx*dx + dy*dy <= hitRadius*hitRadius
\* ------------------------------------------------------------------------
hitTest(this, wx, wy, tolerance) ==
    withinRadius(wx - this.x, wy - this.y, this.radius + tolerance)

\* ------------------------------------------------------------------------
\* selection.js: SelectionManager
\* An asteroid held by the tree or selected is a reference to the object. A
\* reference is modelled as the object's id with the fields the tree and
\* the pick read through it (x, y, radius); these change only in the
\* simulation step, which rebuilds the tree.
\* ------------------------------------------------------------------------
reference(obj) == [id |-> obj.id, x |-> obj.x, y |-> obj.y, radius |-> obj.radius]

\* rebuildQuadtree: the loop over the asteroids, from index k on; the value
\* insert returns is not read
RECURSIVE insertAll(_, _, _)
insertAll(node, objects, k) ==
    IF k > Len(objects) THEN node
    ELSE insertAll(insert(node, reference(objects[k])).node, objects, k + 1)

rebuildQuadtree(objects, bounds) ==
    insertAll(QuadTree([x |-> bounds.minX, y |-> bounds.minY,
                        width |-> bounds.width, height |-> bounds.height], 2 * 2 * 2),
              objects, 1)

\* The initial closestDist
Infinity == MAXREAL

\* findAsteroidAt: the loop over the candidates, from index k on
RECURSIVE closestOf(_, _, _, _, _, _, _)
closerOf(candidates, k, worldX, worldY, tolerance, closest, closestDist, dist) ==
    IF FGe(FAdd(candidates[k].radius, tolerance), dist) /\ FLt(dist, closestDist)
    THEN closestOf(candidates, k + 1, worldX, worldY, tolerance, candidates[k], dist)
    ELSE closestOf(candidates, k + 1, worldX, worldY, tolerance, closest, closestDist)

distance(dx, dy) == FSqrt(FAdd(FMul(dx, dx), FMul(dy, dy)))

closestOf(candidates, k, worldX, worldY, tolerance, closest, closestDist) ==
    IF k > Len(candidates) THEN closest
    ELSE closerOf(candidates, k, worldX, worldY, tolerance, closest, closestDist,
                  distance(FSub(worldX, candidates[k].x), FSub(worldY, candidates[k].y)))

findAsteroidAt(this, worldX, worldY, tolerance) ==
    IF this = null THEN null
    ELSE closestOf(queryCircle(this, worldX, worldY, FAdd(tolerance, 50 * SCALE), <<>>),
                   1, worldX, worldY, tolerance, null, Infinity)

\* ------------------------------------------------------------------------
\* deltav-panel.js: DeltaVPanel
\* The panel is a record of the fields of the class and of what it shows:
\* info is the projected-info section, applyDisabled the Apply button's
\* disabled flag. asteroid is null or the reference [id |-> ...] to the
\* selected body.
\* ------------------------------------------------------------------------
NoInfo == ""

EscapeInfo == "Escape trajectory!"

OrbitInfo == "New semi-major axis"

\* the panel element's class list: as the page has it, until show() removes
\* 'hidden' or hide() adds it
AsOnPage == "page"

Shown == "shown"

Hidden == "hidden"

\* constructor; the button's flag is the page's until the panel first sets
\* it (a button is enabled unless the page disables it)
DeltaVPanel(applyDisabled) ==
    [magnitude |-> 0, direction |-> 0, projectedOrbit |-> null,
     projectedPath |-> null, asteroid |-> null,
     info |-> NoInfo, applyDisabled |-> applyDisabled, visibility |-> AsOnPage]

updateProjectedInfo(this, orbit, escape) ==
    IF orbit = null
    THEN [this EXCEPT !.info = IF escape THEN EscapeInfo ELSE NoInfo,
                      !.applyDisabled = TRUE]
    ELSE [this EXCEPT !.info = OrbitInfo, !.applyDisabled = FALSE]

\* reset()
reset(this) ==
    updateProjectedInfo([this EXCEPT !.magnitude = 0, !.projectedOrbit = null,
                                     !.projectedPath = null], null, FALSE)

\* A variant of that part of updateProjection that shows an escape as it
\* shows no delta-v
projectSilently(this, newOrbit) ==
    IF newOrbit # null /\ FLt(0, newOrbit.a) /\ FLt(newOrbit.e, SCALE)
    THEN [panel |-> updateProjectedInfo(
                        [this EXCEPT !.projectedOrbit = newOrbit,
                                     !.projectedPath = generateOrbitPath(newOrbit, ORBIT_PATH_POINTS)],
                        newOrbit, FALSE),
          newOrbit |-> newOrbit, computed |-> TRUE]
    ELSE [panel |-> updateProjectedInfo(
                        [this EXCEPT !.projectedOrbit = null, !.projectedPath = null],
                        null, FALSE),
          newOrbit |-> newOrbit, computed |-> TRUE]

\* updateProjection, from the result of computeOrbitFromStateVectors on
\* (lines 151-160); the panel afterwards and that result
projectOrbit(this, newOrbit) ==
    IF newOrbit # null /\ FLt(0, newOrbit.a) /\ FLt(newOrbit.e, SCALE)
    THEN [panel |-> updateProjectedInfo(
                        [this EXCEPT !.projectedOrbit = newOrbit,
                                     !.projectedPath = generateOrbitPath(newOrbit, ORBIT_PATH_POINTS)],
                        newOrbit, FALSE),
          newOrbit |-> newOrbit, computed |-> TRUE]
    ELSE [panel |-> updateProjectedInfo(
                        [this EXCEPT !.projectedOrbit = null, !.projectedPath = null],
                        null, TRUE),
          newOrbit |-> newOrbit, computed |-> TRUE]

\* the orbit for the body's position and its velocity plus the delta-v of
\* magnitude dvMagnitude in the panel's direction
orbitWithDeltaV(body, dvMagnitude, direction) ==
    computeOrbitFromStateVectors(
        [x |-> body.x, y |-> body.y],
        [vx |-> FAdd(body.vx, FMul(dvMagnitude, Cos(direction))),
         vy |-> FAdd(body.vy, FMul(dvMagnitude, Sin(direction)))])

\* updateProjection(); bodies is the simulation's array, in which the
\* panel's asteroid is looked up
updateProjection(this, bodies) ==
    IF this.asteroid = null \/ this.magnitude = 0
    THEN [panel |-> updateProjectedInfo(
                        [this EXCEPT !.projectedOrbit = null, !.projectedPath = null],
                        null, FALSE),
          newOrbit |-> null, computed |-> FALSE]
    ELSE projectOrbit(this,
            orbitWithDeltaV(bodies[this.asteroid.id + 1],
                            FMul(this.magnitude, DELTA_V_SCALE), this.direction))

\* setPrograde(), setRetrograde()
setPrograde(this, body) == [this EXCEPT !.direction = Atan2(body.vy, body.vx)]

setRetrograde(this, body) ==
    [this EXCEPT !.direction = Atan2(FNeg(body.vy), FNeg(body.vx))]

\* show(asteroid): reset(), then setPrograde() with its updateProjection()
show(this, bodies, asteroid) ==
    updateProjection(setPrograde(reset([this EXCEPT !.asteroid = asteroid,
                                                    !.visibility = Shown]),
                                 bodies[asteroid.id + 1]),
                     bodies)

\* A variant of hide() that does not reset the panel
hideKeepingProjection(this) ==
    [panel |-> [this EXCEPT !.asteroid = null, !.visibility = Hidden],
     newOrbit |-> null, computed |-> FALSE]

\* hide()
hide(this) ==
    [panel |-> reset([this EXCEPT !.asteroid = null, !.visibility = Hidden]),
     newOrbit |-> null, computed |-> FALSE]

\* ------------------------------------------------------------------------
\* main.js: Simulation
\* ------------------------------------------------------------------------
\* update(): asteroid.update(this.time) for every asteroid
updateAll(bodies, t) == [k \in DOMAIN bodies |-> update(bodies[k], t)]

\* update(): the bounds handed to rebuildQuadtree
worldRadius == FMul(FMul(BELT_OUTER_RADIUS, AU_TO_PIXELS), 2 * SCALE)

worldBounds ==
    [minX |-> FNeg(worldRadius), minY |-> FNeg(worldRadius),
     width |-> FMul(worldRadius, 2 * SCALE), height |-> FMul(worldRadius, 2 * SCALE)]

\* onSelectionChange: the panel is shown for an asteroid, hidden for null;
\* select() calls it only when the selection changes
onSelectionChange(this, bodies, id) ==
    IF id = null THEN hide(this) ELSE show(this, bodies, id)

\* A variant of select() that calls onSelectionChange at every call
selectAndNotify(this, bodies, selected, id) == onSelectionChange(this, bodies, id)

select(this, bodies, selected, id) ==
    IF selected # id THEN onSelectionChange(this, bodies, id)
    ELSE [panel |-> this, newOrbit |-> null, computed |-> FALSE]

\* the reference to the asteroid a pick returned, as the selection holds it
idOf(hit) == IF hit = null THEN null ELSE [id |-> hit.id]

\* applyOrbitChange(asteroid, newOrbit)
applyOrbitChange(bodies, id, newOrbit) ==
    [bodies EXCEPT ![id + 1] = setOrbit(@, newOrbit)]

\* A variant of the click on Apply that does not reset the panel
applyWithoutReset(this, bodies) ==
    IF this.asteroid # null /\ this.projectedOrbit # null
    THEN [panel |-> this,
          bodies |-> applyOrbitChange(bodies, this.asteroid.id, this.projectedOrbit),
          calls |-> << [asteroid |-> this.asteroid, orbit |-> this.projectedOrbit] >>,
          onApply |-> 1]
    ELSE [panel |-> this, bodies |-> bodies, calls |-> <<>>, onApply |-> 0]

\* the click on Apply (deltav-panel.js 64-69): the panel and the asteroids
\* afterwards, the setOrbit calls made and the number of onApply calls
applyClick(this, bodies) ==
    IF this.asteroid # null /\ this.projectedOrbit # null
    THEN [panel |-> reset(this),
          bodies |-> applyOrbitChange(bodies, this.asteroid.id, this.projectedOrbit),
          calls |-> << [asteroid |-> this.asteroid, orbit |-> this.projectedOrbit] >>,
          onApply |-> 1]
    ELSE [panel |-> this, bodies |-> bodies, calls |-> <<>>, onApply |-> 0]

\* ------------------------------------------------------------------------
\* camera.js: Camera
\* Screen coordinates are pixels, as reals. The canvas is at the page's
\* origin, so clientX and clientY are canvas coordinates.
\* ------------------------------------------------------------------------
\* constructor
Camera ==
    [x |-> 0, y |-> 0, zoom |-> SCALE, isPanning |-> FALSE, hasDragged |-> FALSE,
     lastMouseX |-> 0, lastMouseY |-> 0]

\* MouseEvent.button of the left button, and of the right one
LeftButton == 0

OtherButtons == { 2 }

\* the canvas's mousedown listener
mousedown(this, button, clientX, clientY) ==
    IF button = LeftButton
    THEN [this EXCEPT !.isPanning = TRUE, !.hasDragged = FALSE,
                      !.lastMouseX = clientX, !.lastMouseY = clientY]
    ELSE this

\* the window's mouseup listener
mouseup(this) == [this EXCEPT !.isPanning = FALSE]

\* handlePan(e)
handlePan(this, clientX, clientY) ==
    [this EXCEPT !.x = FSub(@, FDiv(FSub(clientX, this.lastMouseX), this.zoom)),
                 !.y = FSub(@, FDiv(FSub(clientY, this.lastMouseY), this.zoom)),
                 !.lastMouseX = clientX, !.lastMouseY = clientY]

\* the window's mousemove listener
mousemove(this, clientX, clientY) ==
    IF this.isPanning
    THEN handlePan(
            [this EXCEPT !.hasDragged =
                @ \/ Abs(FSub(clientX, this.lastMouseX)) > 3 * SCALE
                  \/ Abs(FSub(clientY, this.lastMouseY)) > 3 * SCALE],
            clientX, clientY)
    ELSE this

\* worldToScreen, screenToWorld
worldToScreen(this, canvas, worldX, worldY) ==
    [x |-> FAdd(FMul(FSub(worldX, this.x), this.zoom), FDiv(canvas.width, 2 * SCALE)),
     y |-> FAdd(FMul(FSub(worldY, this.y), this.zoom), FDiv(canvas.height, 2 * SCALE))]

screenToWorld(this, canvas, screenX, screenY) ==
    [x |-> FAdd(FDiv(FSub(screenX, FDiv(canvas.width, 2 * SCALE)), this.zoom), this.x),
     y |-> FAdd(FDiv(FSub(screenY, FDiv(canvas.height, 2 * SCALE)), this.zoom), this.y)]

\* ------------------------------------------------------------------------
\* State
\* ------------------------------------------------------------------------
VARIABLES
    asteroid,   \* the body under test (an Asteroid)
    before,     \* the same body as it was when the last operation was called
    last,       \* the last operation on it: name, arguments, values returned
    ops,        \* number of operations called on the body so far
    call,       \* the last direct call of computeOrbitFromStateVectors
    tree,       \* the root QuadTree
    rootBefore, \* the root as it was when the last insert was called
    inserted,   \* the insert calls made on the root: object and value returned
    found,      \* the last queryCircle call on the root as it is now
    kepler,     \* the last direct call of solveKeplerEquation
    asteroids,  \* Simulation.asteroids
    time,       \* Simulation.time
    quadtree,   \* SelectionManager.quadtree
    selectedAsteroid, \* SelectionManager.selectedAsteroid: null or a reference [id |-> ...]
    panel,      \* the DeltaVPanel: its fields and what it displays
    projectedOrbitPath, \* Simulation.projectedOrbitPath
    frames,     \* number of frames run so far
    inputs,     \* number of clicks on the canvas and inputs of the panel so far
    applies,    \* number of clicks on Apply so far
    event,      \* the last input event handled: its name and what it called
    picked,     \* the last findAsteroidAt call
    camera,     \* Simulation.camera
    mouse       \* the pointer: where it is, the button held, the last click event

bodyVars == <<asteroid, before, last, ops>>

treeVars == <<tree, rootBefore, inserted, found>>

simVars == <<asteroids, time, quadtree, selectedAsteroid, panel, projectedOrbitPath,
             frames, inputs, applies, event, picked>>

cameraVars == <<camera, mouse>>

vars == <<asteroid, before, last, ops, call, tree, rootBefore, inserted, found,
          kepler, asteroids, time, quadtree, selectedAsteroid, panel, projectedOrbitPath,
          frames, inputs, applies, event, picked, camera, mouse>>

\* ------------------------------------------------------------------------
\* Bounds and input sets
\* ------------------------------------------------------------------------
\* Operations called on one body
MaxOps == 3

\* The constructor's draws: BELT_INNER_RADIUS..BELT_OUTER_RADIUS AU,
\* MIN_ECCENTRICITY..MAX_ECCENTRICITY, angles in [0, 2*pi)
ConstructorDraws ==
    { <<BELT_INNER_RADIUS, MIN_ECCENTRICITY, 0, 0, MIN_ASTEROID_RADIUS>>,
      <<BELT_OUTER_RADIUS, MAX_ECCENTRICITY, HALF_PI, PI, MAX_ASTEROID_RADIUS>> }

\* Orbits handed to fromOrbit and setOrbit
OrbitInputs ==
    { [a |-> 500 * SCALE, e |-> 0, omega |-> 0, M0 |-> 0],
      [a |-> 400 * SCALE, e |-> SCALE \div 5, omega |-> SCALE, M0 |-> SCALE \div 2] }

\* Times handed to update
Times == { 0, 100 * SCALE }

\* Times handed to applyDeltaV, which does not read its t
DeltaVTimes == { 100 * SCALE }

\* Delta-v vectors handed to applyDeltaV: none, a fixed vector, and
\* multiples of the body's velocity (prograde for a positive factor,
\* retrograde for a negative one; factor -1 stops the body).
DeltaVFactors == { 0 - (3 * SCALE) \div 2, 0 - SCALE, SCALE \div 2 }

DeltaVs(this) ==
    { <<0, 0>>, <<SCALE \div 5, 0>> }
    \cup (IF IsNaN(this.vx) \/ IsNaN(this.vy) THEN {}
          ELSE { <<FMul(f, this.vx), FMul(f, this.vy)>> : f \in DeltaVFactors })

NoCall == [r |-> [x |-> 0, y |-> 0], v |-> [vx |-> 0, vy |-> 0], result |-> null, made |-> FALSE]

NoArgs == [dvx |-> 0, dvy |-> 0, t |-> 0, orbit |-> null]

\* Depth at which the cells of the root are one grid step wide
Levels == 3

\* Capacity of every node of the tree
Capacity == 2

\* Insert calls made on one tree
MaxObjects == 4

RootWidth == 2 ^ Levels

RootBounds == [x |-> 0, y |-> 0, width |-> RootWidth, height |-> RootWidth]

\* Positions of the objects inserted: five inside the root's bounds, one of
\* them on the centre lines, and one on the root's right edge, which is outside
TreePoints ==
    { <<1, 1>>, <<5, 1>>, <<6, 6>>, <<2, 5>>,
      <<RootWidth \div 2, RootWidth \div 2>>, <<RootWidth, 0>> }

\* Circles queried: centre and radius
QueryInputs == { <<1, 1, 0>>, <<4, 4, 2>>, <<3, 3, 3>>, <<7, 2, 5>> }

NoQuery == [cx |-> 0, cy |-> 0, radius |-> 0, result |-> <<>>, made |-> FALSE]

\* The variables of the parts that take no step
BodyIdle ==
    /\ asteroid = null
    /\ before = null
    /\ last = [op |-> "none", args |-> NoArgs, result |-> FALSE, newOrbit |-> null]
    /\ ops = 0

CallIdle == call = NoCall

TreeIdle ==
    /\ tree = QuadTree(RootBounds, Capacity)
    /\ rootBefore = tree
    /\ inserted = <<>>
    /\ found = NoQuery

NoKepler == [M |-> 0, e |-> 0, E |-> 0, iterations |-> 0, made |-> FALSE]

KeplerIdle == kepler = NoKepler

NoEvent ==
    [op |-> "none", calls |-> <<>>, onApply |-> 0, magnitude |-> 0,
     computed |-> FALSE, newOrbit |-> null, wasEscape |-> FALSE,
     repeated |-> FALSE, orbitBefore |-> null, bodyBefore |-> null,
     hadProjection |-> FALSE]

NoPick == [worldX |-> 0, worldY |-> 0, tolerance |-> 0, result |-> null, made |-> FALSE]

\* MouseEvent.button while no button is held
NoButton == 0 - 1

NoClick ==
    [made |-> FALSE, hasDragged |-> FALSE, handled |-> FALSE, movedAway |-> FALSE,
     selectedBefore |-> null, selectedAfter |-> null]

\* the pointer before the first mouse event
NoMouse ==
    [x |-> 0, y |-> 0, button |-> NoButton, downX |-> 0, downY |-> 0,
     movedAway |-> FALSE, movesHeld |-> 0, clickPending |-> FALSE, presses |-> 0,
     moves |-> 0, click |-> NoClick]

CameraIdle ==
    /\ camera = Camera
    /\ mouse = NoMouse

PanelIdle ==
    /\ selectedAsteroid = null
    /\ panel = DeltaVPanel(TRUE)
    /\ projectedOrbitPath = null
    /\ inputs = 0
    /\ applies = 0
    /\ event = NoEvent

SimIdle ==
    /\ asteroids = <<>>
    /\ time = 0
    /\ quadtree = null
    /\ frames = 0
    /\ picked = NoPick
    /\ PanelIdle
    /\ CameraIdle

\* ------------------------------------------------------------------------
\* The body: construction, then update / applyDeltaV / setOrbit in any order
\* ------------------------------------------------------------------------
InitNew ==
    \E d \in ConstructorDraws :
        asteroid = Asteroid(0, d[1], d[2], d[3], d[4], d[5])
        /\ last = [op |-> "new", args |-> NoArgs, result |-> FALSE, newOrbit |-> null]

InitFromOrbit ==
    \E orbit \in OrbitInputs :
        asteroid = fromOrbit(1, orbit, MIN_ASTEROID_RADIUS, "grey")
        /\ last = [op |-> "fromOrbit", args |-> [NoArgs EXCEPT !.orbit = orbit],
                   result |-> FALSE, newOrbit |-> null]

Init ==
    /\ InitNew \/ InitFromOrbit
    /\ before = asteroid
    /\ ops = 0
    /\ CallIdle
    /\ TreeIdle
    /\ KeplerIdle
    /\ SimIdle

Update ==
    /\ ops < MaxOps
    /\ \E t \in Times :
        /\ asteroid' = update(asteroid, t)
        /\ last' = [op |-> "update", args |-> NoArgs,
                    result |-> FALSE, newOrbit |-> null]
    /\ before' = asteroid
    /\ ops' = ops + 1
    /\ UNCHANGED <<cameraVars, call, treeVars, kepler, simVars>>

ApplyDeltaVDone(done, dv, t) ==
    /\ asteroid' = done.this
    /\ last' = [op |-> "applyDeltaV",
                args |-> [NoArgs EXCEPT !.dvx = dv[1], !.dvy = dv[2], !.t = t],
                result |-> done.result, newOrbit |-> done.newOrbit]

ApplyDeltaV ==
    /\ ops < MaxOps
    /\ \E dv \in DeltaVs(asteroid), t \in DeltaVTimes :
        ApplyDeltaVDone(applyDeltaV(asteroid, dv[1], dv[2], t), dv, t)
    /\ before' = asteroid
    /\ ops' = ops + 1
    /\ UNCHANGED <<cameraVars, call, treeVars, kepler, simVars>>

SetOrbit ==
    /\ ops < MaxOps
    /\ \E orbit \in OrbitInputs :
        /\ asteroid' = setOrbit(asteroid, orbit)
        /\ last' = [op |-> "setOrbit", args |-> [NoArgs EXCEPT !.orbit = orbit],
                    result |-> FALSE, newOrbit |-> null]
    /\ before' = asteroid
    /\ ops' = ops + 1
    /\ UNCHANGED <<cameraVars, call, treeVars, kepler, simVars>>

Next == Update \/ ApplyDeltaV \/ SetOrbit

Spec == Init /\ [][Next]_vars

\* ------------------------------------------------------------------------
\* computeOrbitFromStateVectors called directly on state vectors
\* ------------------------------------------------------------------------
\* Positions: the origin, on an axis, off the axes
PositionInputs ==
    { [x |-> 0, y |-> 0],
      [x |-> 500 * SCALE, y |-> 0],
      [x |-> 0, y |-> 0 - 400 * SCALE],
      [x |-> 300 * SCALE, y |-> 400 * SCALE],
      [x |-> 0 - 200 * SCALE, y |-> 0] }

\* Velocity components; at distance 500 the circular speed is 1.414 and the
\* escape speed is 2
VelocityComponents ==
    { 0 - 2 * SCALE, 0 - SCALE, 0, SCALE, (1414 * SCALE) \div 1000, 2 * SCALE, NaN }

InitOrbit ==
    /\ BodyIdle
    /\ call = NoCall
    /\ TreeIdle
    /\ KeplerIdle
    /\ SimIdle

ComputeOrbit ==
    /\ \E r \in PositionInputs, vx \in VelocityComponents, vy \in VelocityComponents :
        call' = [r |-> r, v |-> [vx |-> vx, vy |-> vy],
                 result |-> computeOrbitFromStateVectors(r, [vx |-> vx, vy |-> vy]),
                 made |-> TRUE]
    /\ UNCHANGED <<cameraVars, bodyVars, treeVars, kepler, simVars>>

NextOrbit == ComputeOrbit

SpecOrbit == InitOrbit /\ [][NextOrbit]_vars

\* ------------------------------------------------------------------------
\* The tree: construction, then insert and queryCircle in any order
\* ------------------------------------------------------------------------
InitTree ==
    /\ BodyIdle
    /\ CallIdle
    /\ TreeIdle
    /\ KeplerIdle
    /\ SimIdle

InsertDone(obj, done) ==
    /\ tree' = done.node
    /\ inserted' = Append(inserted, [obj |-> obj, result |-> done.result])

InsertObject(obj) == InsertDone(obj, insert(tree, obj))

Insert ==
    /\ Len(inserted) < MaxObjects
    /\ \E p \in TreePoints :
        InsertObject([id |-> Len(inserted) + 1, x |-> p[1], y |-> p[2]])
    /\ rootBefore' = tree
    /\ found' = NoQuery
    /\ UNCHANGED <<cameraVars, bodyVars, call, kepler, simVars>>

QueryCircle ==
    /\ \E q \in QueryInputs :
        found' = [cx |-> q[1], cy |-> q[2], radius |-> q[3],
                  result |-> queryCircle(tree, q[1], q[2], q[3], <<>>),
                  made |-> TRUE]
    /\ UNCHANGED <<cameraVars, bodyVars, call, tree, rootBefore, inserted, kepler, simVars>>

NextTree == Insert \/ QueryCircle

SpecTree == InitTree /\ [][NextTree]_vars

\* ------------------------------------------------------------------------
\* solveKeplerEquation called directly on a mean anomaly and an eccentricity
\* ------------------------------------------------------------------------
\* Mean anomalies: inside [0, 2*pi), outside it, and not a number
MeanAnomalies ==
    { 0, 1, SCALE \div 10, SCALE \div 2, SCALE, 2 * SCALE, PI, 4 * SCALE,
      5 * SCALE, 6 * SCALE, TWO_PI - 1, 7 * SCALE, 0 - SCALE, 100 * SCALE, NaN }

\* Eccentricities: circular, elliptic on both sides of 0.8, parabolic,
\* hyperbolic
Eccentricities ==
    { 0, SCALE \div 10, (3 * SCALE) \div 10, SCALE \div 2, (8 * SCALE) \div 10,
      (81 * SCALE) \div 100, (9 * SCALE) \div 10, (98 * SCALE) \div 100,
      (99 * SCALE) \div 100,
      SCALE, 2 * SCALE }

InitKepler ==
    /\ BodyIdle
    /\ CallIdle
    /\ TreeIdle
    /\ SimIdle
    /\ kepler = NoKepler

SolveDone(M, e, run) ==
    kepler' = [M |-> M, e |-> e, E |-> run.E, iterations |-> run.iterations, made |-> TRUE]

SolveKepler ==
    /\ \E M \in MeanAnomalies, e \in Eccentricities : SolveDone(M, e, solveKeplerRun(M, e))
    /\ UNCHANGED <<cameraVars, bodyVars, call, treeVars, simVars>>

NextKepler == SolveKepler

SpecKepler == InitKepler /\ [][NextKepler]_vars

\* ------------------------------------------------------------------------
\* Maneuvers on a circular orbit: fromOrbit, update(t), applyDeltaV along
\* or against the velocity
\* ------------------------------------------------------------------------
\* Radii of the circular orbits
ManeuverRadii == { 300 * SCALE, 400 * SCALE, 500 * SCALE, 525 * SCALE }

\* Times the body is updated to
ManeuverTimes == { 0, 100 * SCALE, 1000 * SCALE }

\* Delta-v as a multiple of the body's velocity: prograde for a positive
\* factor, retrograde for a negative one. The body escapes from factor
\* sqrt(2) - 1 = 0.414 on, and against the velocity from -(1 + sqrt(2)) =
\* -2.414 on.
ManeuverFactors ==
    { 0 - 3 * SCALE, 0 - (5 * SCALE) \div 2, 0 - (22 * SCALE) \div 10, 0 - 2 * SCALE,
      0 - (3 * SCALE) \div 2, 0 - (12 * SCALE) \div 10, 0, (3 * SCALE) \div 10,
      (42 * SCALE) \div 100, SCALE \div 2, SCALE }

InitManeuver ==
    /\ \E a \in ManeuverRadii :
        /\ asteroid = fromOrbit(1, [a |-> a, e |-> 0, omega |-> 0, M0 |-> 0],
                                MIN_ASTEROID_RADIUS, "grey")
        /\ last = [op |-> "fromOrbit",
                   args |-> [NoArgs EXCEPT !.orbit = [a |-> a, e |-> 0, omega |-> 0, M0 |-> 0]],
                   result |-> FALSE, newOrbit |-> null]
    /\ before = asteroid
    /\ ops = 0
    /\ CallIdle
    /\ TreeIdle
    /\ KeplerIdle
    /\ SimIdle

ManeuverUpdate ==
    /\ last.op = "fromOrbit"
    /\ \E t \in ManeuverTimes :
        /\ asteroid' = update(asteroid, t)
        /\ last' = [op |-> "update", args |-> [NoArgs EXCEPT !.t = t],
                    result |-> FALSE, newOrbit |-> null]
    /\ before' = asteroid
    /\ ops' = ops + 1
    /\ UNCHANGED <<cameraVars, call, treeVars, kepler, simVars>>

ManeuverApply ==
    /\ last.op = "update"
    /\ \E f \in ManeuverFactors :
        ApplyDeltaVDone(applyDeltaV(asteroid, FMul(f, asteroid.vx), FMul(f, asteroid.vy),
                                    last.args.t),
                        <<FMul(f, asteroid.vx), FMul(f, asteroid.vy)>>, last.args.t)
    /\ before' = asteroid
    /\ ops' = ops + 1
    /\ UNCHANGED <<cameraVars, call, treeVars, kepler, simVars>>

NextManeuver == ManeuverUpdate \/ ManeuverApply

SpecManeuver == InitManeuver /\ [][NextManeuver]_vars

\* ------------------------------------------------------------------------
\* The selection manager on its own: rebuildQuadtree on an array of bodies,
\* then findAsteroidAt
\* ------------------------------------------------------------------------
\* Bodies indexed: three near the origin, of radius 60, 20 and 2, and
\* seven spread over the world, so that the ninth insert subdivides the root
PickBodies ==
    << [id |-> 0, x |-> 0, y |-> 0, radius |-> 60 * SCALE],
       [id |-> 1, x |-> 100 * SCALE, y |-> 0, radius |-> 20 * SCALE],
       [id |-> 2, x |-> 130 * SCALE, y |-> 0, radius |-> 2 * SCALE],
       [id |-> 3, x |-> 0 - 300 * SCALE, y |-> 0 - 300 * SCALE, radius |-> 2 * SCALE],
       [id |-> 4, x |-> 300 * SCALE, y |-> 300 * SCALE, radius |-> 20 * SCALE],
       [id |-> 5, x |-> 0 - 600 * SCALE, y |-> 200 * SCALE, radius |-> 2 * SCALE],
       [id |-> 6, x |-> 600 * SCALE, y |-> 0 - 200 * SCALE, radius |-> 2 * SCALE],
       [id |-> 7, x |-> 0 - 800 * SCALE, y |-> 0 - 800 * SCALE, radius |-> 20 * SCALE],
       [id |-> 8, x |-> 800 * SCALE, y |-> 800 * SCALE, radius |-> 2 * SCALE],
       [id |-> 9, x |-> 110 * SCALE, y |-> 60 * SCALE, radius |-> 20 * SCALE] >>

\* The orders the bodies are handed over in: as listed, and reversed
PickLayouts ==
    { PickBodies,
      [k \in DOMAIN PickBodies |-> PickBodies[Len(PickBodies) + 1 - k]] }

\* Points picked and tolerances (CLICK_TOLERANCE at zoom 1 and 4)
PickCoordinates ==
    { 0 - 70 * SCALE, 0 - 65 * SCALE, 0, 50 * SCALE, 65 * SCALE, 75 * SCALE,
      85 * SCALE, 100 * SCALE, 115 * SCALE, 125 * SCALE, 135 * SCALE }

PickOffsets == { 0, 30 * SCALE, 65 * SCALE }

PickTolerances == { CLICK_TOLERANCE, FDiv(CLICK_TOLERANCE, 4 * SCALE) }

InitPick ==
    /\ BodyIdle
    /\ CallIdle
    /\ TreeIdle
    /\ KeplerIdle
    /\ SimIdle

RebuildQuadtree ==
    /\ \E layout \in PickLayouts :
        /\ asteroids' = layout
        /\ quadtree' = rebuildQuadtree(layout, worldBounds)
    /\ picked' = NoPick
    /\ UNCHANGED <<cameraVars, bodyVars, call, treeVars, kepler, time, selectedAsteroid, panel,
                   projectedOrbitPath, frames, inputs, applies, event>>

FindAsteroidAt ==
    /\ \E x \in PickCoordinates, y \in PickOffsets, tolerance \in PickTolerances :
        picked' = [worldX |-> x, worldY |-> y, tolerance |-> tolerance,
                   result |-> findAsteroidAt(quadtree, x, y, tolerance), made |-> TRUE]
    /\ UNCHANGED <<cameraVars, bodyVars, call, treeVars, kepler, asteroids, time, quadtree,
                   selectedAsteroid, panel, projectedOrbitPath, frames, inputs, applies, event>>

NextPick == RebuildQuadtree \/ FindAsteroidAt

SpecPick == InitPick /\ [][NextPick]_vars

\* ------------------------------------------------------------------------
\* The simulation: frames, clicks on the canvas, the panel's inputs and its
\* Apply button, in any order
\* ------------------------------------------------------------------------
\* Frames run
MaxFrames == 2

\* Clicks on the canvas and inputs of the panel
MaxInputs == 2

\* Clicks on Apply
MaxApplies == 2

\* generateAsteroids(): the draws of the constructors (aAU, e, omega, M0,
\* radius): a body at the periapsis of the widest and most eccentric orbit
SimulationDraws ==
    << <<BELT_OUTER_RADIUS, MAX_ECCENTRICITY, 0, 0, MAX_ASTEROID_RADIUS>> >>

generateAsteroids ==
    [i \in DOMAIN SimulationDraws |->
        Asteroid(i - 1, SimulationDraws[i][1], SimulationDraws[i][2], SimulationDraws[i][3],
                 SimulationDraws[i][4], SimulationDraws[i][5])]

\* Milliseconds between two frames: 100 s and 2000 s (the page was in the
\* background, or as many frames of 16 ms ran)
FrameTimes == { 100 * SCALE, 2000 * SCALE }

\* Values of the magnitude slider
SliderMagnitudes == { 2 * SCALE, MAX_DELTA_V }

\* camera.zoom
Zooms == { SCALE }

InitSimulation ==
    /\ BodyIdle
    /\ CallIdle
    /\ TreeIdle
    /\ KeplerIdle
    /\ asteroids = generateAsteroids
    /\ time = 0
    /\ quadtree = null
    /\ frames = 0
    /\ picked = NoPick
    /\ selectedAsteroid = null
    /\ panel = DeltaVPanel(FALSE)
    /\ projectedOrbitPath = null
    /\ inputs = 0
    /\ applies = 0
    /\ event = NoEvent
    /\ CameraIdle

\* A variant of the frame that rebuilds the quadtree before the asteroids
\* are updated
FrameIndexedFirst(t) ==
    /\ time' = t
    /\ quadtree' = rebuildQuadtree(asteroids, worldBounds)
    /\ asteroids' = updateAll(asteroids, t)

\* gameLoop(timestamp) and update(): the time advances, every asteroid is
\* updated to it and the quadtree is rebuilt (updateAsteroidInfo and
\* render only draw)
FrameAt(t) ==
    /\ time' = t
    /\ asteroids' = updateAll(asteroids, t)
    /\ quadtree' = rebuildQuadtree(asteroids', worldBounds)

\* a frame after one of the given numbers of milliseconds
FrameAfter(deltaTimes) ==
    /\ \E deltaTime \in deltaTimes : FrameAt(FAdd(time, deltaTime * TIME_SCALE))
    /\ frames' = frames + 1
    /\ UNCHANGED <<cameraVars, bodyVars, call, treeVars, kepler, selectedAsteroid, panel,
                   projectedOrbitPath, inputs, applies, event, picked>>

\* an input of the panel handled: the panel afterwards, the path handed to
\* onProjectionChange, and what updateProjection computed
InputDone(op, done) ==
    /\ inputs' = inputs + 1
    /\ panel' = done.panel
    /\ projectedOrbitPath' = done.panel.projectedPath
    /\ event' = [NoEvent EXCEPT !.op = op, !.magnitude = done.panel.magnitude,
                                !.computed = done.computed, !.newOrbit = done.newOrbit,
                                !.hadProjection = panel.projectedOrbit # null]

\* handleClick: findAsteroidAt at the world point, then select()
ClickDone(x, y, tolerance, hit) ==
    /\ picked' = [worldX |-> x, worldY |-> y, tolerance |-> tolerance,
                  result |-> hit, made |-> TRUE]
    /\ selectedAsteroid' = idOf(hit)
    /\ InputDone("click", select(panel, asteroids, selectedAsteroid, idOf(hit)))

ClickAt(x, y, tolerance) ==
    ClickDone(x, y, tolerance, findAsteroidAt(quadtree, x, y, tolerance))

\* a click on the canvas, at an asteroid or at the sun
ClickEvent ==
    /\ \E zoom \in Zooms :
        \/ \E k \in DOMAIN asteroids :
            ClickAt(asteroids[k].x, asteroids[k].y, FDiv(CLICK_TOLERANCE, zoom))
        \/ ClickAt(0, 0, FDiv(CLICK_TOLERANCE, zoom))
    /\ UNCHANGED <<cameraVars, bodyVars, call, treeVars, kepler, asteroids, time, quadtree,
                   frames, applies>>

\* the double click handled: findAsteroidAt at the world point, then, for
\* an asteroid, camera.centerOn and select(); nothing else for null
DoubleClickDone(x, y, tolerance, hit) ==
    /\ picked' = [worldX |-> x, worldY |-> y, tolerance |-> tolerance,
                  result |-> hit, made |-> TRUE]
    /\ selectedAsteroid' = IF hit = null THEN selectedAsteroid ELSE idOf(hit)
    /\ InputDone("dblclick",
            IF hit = null THEN [panel |-> panel, newOrbit |-> null, computed |-> FALSE]
            ELSE select(panel, asteroids, selectedAsteroid, idOf(hit)))

DoubleClickAt(x, y, tolerance) ==
    DoubleClickDone(x, y, tolerance, findAsteroidAt(quadtree, x, y, tolerance))

\* a double click on the canvas, at an asteroid or at the sun
DoubleClickEvent ==
    /\ \E zoom \in Zooms :
        \/ \E k \in DOMAIN asteroids :
            DoubleClickAt(asteroids[k].x, asteroids[k].y, FDiv(10 * SCALE, zoom))
        \/ DoubleClickAt(0, 0, FDiv(10 * SCALE, zoom))
    /\ UNCHANGED <<cameraVars, bodyVars, call, treeVars, kepler, asteroids, time, quadtree,
                   frames, applies>>

\* the Escape key: deselect(), which is select(null)
EscapeEvent ==
    /\ selectedAsteroid' = null
    /\ InputDone("escape", select(panel, asteroids, selectedAsteroid, null))
    /\ UNCHANGED <<cameraVars, bodyVars, call, treeVars, kepler, asteroids, time, quadtree,
                   frames, applies, picked>>

\* the magnitude slider's input event, with one of the given values
MagnitudeEvent(magnitudes) ==
    /\ \E m \in magnitudes :
        InputDone("magnitude", updateProjection([panel EXCEPT !.magnitude = m], asteroids))
    /\ UNCHANGED <<cameraVars, bodyVars, call, treeVars, kepler, asteroids, time, quadtree,
                   selectedAsteroid, frames, applies, picked>>

\* the click on the retrograde button
RetrogradeEvent ==
    /\ InputDone("retrograde",
            IF panel.asteroid = null
            THEN [panel |-> panel, newOrbit |-> null, computed |-> FALSE]
            ELSE updateProjection(setRetrograde(panel, asteroids[panel.asteroid.id + 1]),
                                  asteroids))
    /\ UNCHANGED <<cameraVars, bodyVars, call, treeVars, kepler, asteroids, time, quadtree,
                   selectedAsteroid, frames, applies, picked>>

\* the click on Apply
ApplyDone(done) ==
    /\ asteroids' = done.bodies
    /\ panel' = done.panel
    /\ projectedOrbitPath' = done.panel.projectedPath
    /\ event' = [op |-> "apply", calls |-> done.calls, onApply |-> done.onApply,
                 magnitude |-> panel.magnitude, computed |-> FALSE, newOrbit |-> null,
                 wasEscape |-> IF event.op = "apply" THEN event.wasEscape
                               ELSE event.computed /\ event.newOrbit = null,
                 repeated |-> event.op = "apply",
                 orbitBefore |-> IF panel.asteroid = null THEN null
                                 ELSE asteroids[panel.asteroid.id + 1].orbit,
                 bodyBefore |-> IF panel.asteroid = null THEN null
                                ELSE asteroids[panel.asteroid.id + 1],
                 hadProjection |-> panel.projectedOrbit # null]

ApplyEvent ==
    /\ ApplyDone(applyClick(panel, asteroids))
    /\ applies' = applies + 1
    /\ UNCHANGED <<cameraVars, bodyVars, call, treeVars, kepler, time, quadtree, selectedAsteroid,
                   frames, inputs, picked>>

\* the events of the simulation, within its bounds
Frame == frames < MaxFrames /\ FrameAfter(FrameTimes)

Click == inputs < MaxInputs /\ ClickEvent

MagnitudeInput == inputs < MaxInputs /\ MagnitudeEvent(SliderMagnitudes)

Retrograde == inputs < MaxInputs /\ RetrogradeEvent

Apply == applies < MaxApplies /\ ApplyEvent

NextSimulation ==
    Frame \/ Click \/ MagnitudeInput \/ Retrograde \/ Apply

SpecSimulation == InitSimulation /\ [][NextSimulation]_vars

\* ------------------------------------------------------------------------
\* A maneuver in flight: fromOrbit, update(t), applyDeltaV at t with no
\* delta-v or a small one, and update(t) again at the same t
\* ------------------------------------------------------------------------
\* Orbits flown: circular and elliptic, periapsis along and off the x axis
FlightAxes == { 300 * SCALE, 500 * SCALE }

FlightEccentricities == { 0, SCALE \div 10, (3 * SCALE) \div 10, SCALE \div 2 }

FlightAngles == { 0, SCALE, 4 * SCALE }

FlightOrbits ==
    { [a |-> a, e |-> e, omega |-> omega, M0 |-> M0] :
        a \in FlightAxes, e \in FlightEccentricities,
        omega \in FlightAngles, M0 \in FlightAngles }

\* Times of the maneuver
FlightTimes == { 0, 100 * SCALE, 1000 * SCALE }

\* Delta-v of the maneuver: none, and a tenth of the velocity along it
FlightFactors == { 0, SCALE \div 10 }

InitFlight ==
    /\ \E orbit \in FlightOrbits :
        /\ asteroid = fromOrbit(1, orbit, MIN_ASTEROID_RADIUS, "grey")
        /\ last = [op |-> "fromOrbit", args |-> [NoArgs EXCEPT !.orbit = orbit],
                   result |-> FALSE, newOrbit |-> null]
    /\ before = asteroid
    /\ ops = 0
    /\ CallIdle
    /\ TreeIdle
    /\ KeplerIdle
    /\ SimIdle

\* update(t), first to the time of the maneuver and after the maneuver to
\* the same time again
FlightUpdate ==
    /\ \/ last.op = "fromOrbit" /\ \E t \in FlightTimes :
            /\ asteroid' = update(asteroid, t)
            /\ last' = [op |-> "update", args |-> [NoArgs EXCEPT !.t = t],
                        result |-> FALSE, newOrbit |-> null]
       \/ last.op = "applyDeltaV"
            /\ asteroid' = update(asteroid, last.args.t)
            /\ last' = [op |-> "updateAgain", args |-> last.args,
                        result |-> last.result, newOrbit |-> last.newOrbit]
    /\ before' = asteroid
    /\ ops' = ops + 1
    /\ UNCHANGED <<cameraVars, call, treeVars, kepler, simVars>>

FlightApply ==
    /\ last.op = "update"
    /\ \E f \in FlightFactors :
        ApplyDeltaVDone(applyDeltaV(asteroid, FMul(f, asteroid.vx), FMul(f, asteroid.vy),
                                    last.args.t),
                        <<FMul(f, asteroid.vx), FMul(f, asteroid.vy)>>, last.args.t)
    /\ before' = asteroid
    /\ ops' = ops + 1
    /\ UNCHANGED <<cameraVars, call, treeVars, kepler, simVars>>

NextFlight == FlightUpdate \/ FlightApply

SpecFlight == InitFlight /\ [][NextFlight]_vars

\* ------------------------------------------------------------------------
\* orbitalPeriod on orbits of many sizes: fromOrbit, then setOrbit
\* ------------------------------------------------------------------------
\* Semi-major axes: across the range, one step of the resolution apart, and
\* one unit apart
PeriodAxes ==
    { 100 * SCALE, 300 * SCALE, 300 * SCALE + 1, 301 * SCALE, 400 * SCALE,
      500 * SCALE, 525 * SCALE, 1000 * SCALE }

\* The other elements: a circular orbit and an ellipse turned and advanced
PeriodShapes == { <<0, 0, 0>>, <<(3 * SCALE) \div 10, SCALE, 4 * SCALE>> }

PeriodOrbits ==
    { [a |-> a, e |-> shape[1], omega |-> shape[2], M0 |-> shape[3]] :
        a \in PeriodAxes, shape \in PeriodShapes }

InitPeriod ==
    /\ \E orbit \in PeriodOrbits :
        /\ asteroid = fromOrbit(1, orbit, MIN_ASTEROID_RADIUS, "grey")
        /\ last = [op |-> "fromOrbit", args |-> [NoArgs EXCEPT !.orbit = orbit],
                   result |-> FALSE, newOrbit |-> null]
    /\ before = asteroid
    /\ ops = 0
    /\ CallIdle
    /\ TreeIdle
    /\ KeplerIdle
    /\ SimIdle

PeriodSetOrbit ==
    /\ ops = 0
    /\ \E orbit \in PeriodOrbits :
        /\ asteroid' = setOrbit(asteroid, orbit)
        /\ last' = [op |-> "setOrbit", args |-> [NoArgs EXCEPT !.orbit = orbit],
                    result |-> FALSE, newOrbit |-> null]
    /\ before' = asteroid
    /\ ops' = ops + 1
    /\ UNCHANGED <<cameraVars, call, treeVars, kepler, simVars>>

NextPeriod == PeriodSetOrbit

SpecPeriod == InitPeriod /\ [][NextPeriod]_vars

\* ------------------------------------------------------------------------
\* The pointer on the canvas: frames, and the mouse pressed, moved and
\* released, with the click event that follows the release of the left
\* button
\* ------------------------------------------------------------------------
\* Times a button is pressed
MaxPresses == 2

\* Mouse-move events while a button is held
MaxMoves == 3

\* Frames run
MaxCameraFrames == 1

\* canvas.width, canvas.height
mainCanvas == [width |-> 1920 * SCALE, height |-> 1080 * SCALE]

\* the pixels the pointer moves by between two mouse-move events
MoveSteps == { <<2 * SCALE, 0>>, <<0, 0 - 3 * SCALE>>, <<4 * SCALE, 0>> }

\* where the button goes down: on an asteroid, or on the sun
DownPoints ==
    { worldToScreen(camera, mainCanvas, asteroids[k].x, asteroids[k].y) : k \in DOMAIN asteroids }
        \cup { worldToScreen(camera, mainCanvas, 0, 0) }

CameraFrame ==
    /\ frames < MaxCameraFrames
    /\ FrameAfter({ 100 * SCALE })

MouseDownAt(button, p) ==
    /\ camera' = mousedown(camera, button, p.x, p.y)
    /\ mouse' = [mouse EXCEPT !.x = p.x, !.y = p.y, !.button = button,
                              !.downX = p.x, !.downY = p.y, !.movedAway = FALSE,
                              !.movesHeld = 0, !.clickPending = FALSE,
                              !.presses = @ + 1]

MouseDown ==
    /\ mouse.button = NoButton
    /\ mouse.presses < MaxPresses
    /\ \E button \in { LeftButton } \cup OtherButtons : \E p \in DownPoints :
        MouseDownAt(button, p)
    /\ UNCHANGED <<bodyVars, call, treeVars, kepler, simVars>>

\* is the pointer at (x, y) more than 3 pixels in x or in y from where the
\* button went down
isAway(x, y) ==
    Abs(x - mouse.downX) > 3 * SCALE \/ Abs(y - mouse.downY) > 3 * SCALE

MouseMoveTo(x, y) ==
    /\ camera' = mousemove(camera, x, y)
    /\ mouse' = [mouse EXCEPT !.x = x, !.y = y, !.moves = @ + 1,
                              !.movesHeld = @ + 1, !.movedAway = @ \/ isAway(x, y)]

MouseMove ==
    /\ mouse.button # NoButton
    /\ mouse.moves < MaxMoves
    /\ \E step \in MoveSteps : MouseMoveTo(mouse.x + step[1], mouse.y + step[2])
    /\ UNCHANGED <<bodyVars, call, treeVars, kepler, simVars>>

MouseUp ==
    /\ mouse.button # NoButton
    /\ camera' = mouseup(camera)
    /\ mouse' = [mouse EXCEPT !.button = NoButton,
                              !.clickPending = (mouse.button = LeftButton)]
    /\ UNCHANGED <<bodyVars, call, treeVars, kepler, simVars>>

\* the canvas's click listener (main.js): handleClick unless
\* camera.hasDragged
CanvasClickAt(world) ==
    /\ IF ~camera.hasDragged
       THEN ClickAt(world.x, world.y, FDiv(CLICK_TOLERANCE, camera.zoom))
       ELSE UNCHANGED <<picked, selectedAsteroid, inputs, panel, projectedOrbitPath, event>>
    /\ mouse' = [mouse EXCEPT !.clickPending = FALSE,
                              !.click = [made |-> TRUE, hasDragged |-> camera.hasDragged,
                                         handled |-> ~camera.hasDragged,
                                         movedAway |-> mouse.movedAway,
                                         selectedBefore |-> selectedAsteroid,
                                         selectedAfter |-> selectedAsteroid']]

CanvasClick ==
    /\ mouse.clickPending
    /\ CanvasClickAt(screenToWorld(camera, mainCanvas, mouse.x, mouse.y))
    /\ UNCHANGED <<bodyVars, call, treeVars, kepler, asteroids, time, quadtree,
                   frames, applies, camera>>

NextCamera == CameraFrame \/ MouseDown \/ MouseMove \/ MouseUp \/ CanvasClick

SpecCamera == InitSimulation /\ [][NextCamera]_vars

\* ------------------------------------------------------------------------
\* The selection: two bodies, frames, clicks and double clicks on the
\* canvas, the Escape key, the magnitude slider and the Apply button, in
\* any order
\* ------------------------------------------------------------------------
\* Frames run
MaxSelectionFrames == 2

\* Clicks, double clicks, Escape presses and inputs of the slider
MaxSelectionInputs == 3

\* Clicks on Apply
MaxSelectionApplies == 1

\* the draws of the two constructors (aAU, e, omega, M0, radius)
SelectionDraws ==
    << <<BELT_INNER_RADIUS, MIN_ECCENTRICITY, 0, 0, MIN_ASTEROID_RADIUS>>,
       <<BELT_OUTER_RADIUS, MAX_ECCENTRICITY, HALF_PI, PI, MAX_ASTEROID_RADIUS>> >>

InitSelection ==
    /\ BodyIdle
    /\ CallIdle
    /\ TreeIdle
    /\ KeplerIdle
    /\ asteroids = [i \in DOMAIN SelectionDraws |->
                        Asteroid(i - 1, SelectionDraws[i][1], SelectionDraws[i][2],
                                 SelectionDraws[i][3], SelectionDraws[i][4],
                                 SelectionDraws[i][5])]
    /\ time = 0
    /\ quadtree = null
    /\ frames = 0
    /\ picked = NoPick
    /\ selectedAsteroid = null
    /\ panel = DeltaVPanel(FALSE)
    /\ projectedOrbitPath = null
    /\ inputs = 0
    /\ applies = 0
    /\ event = NoEvent
    /\ CameraIdle

SelectionFrame == frames < MaxSelectionFrames /\ FrameAfter({ 100 * SCALE })

SelectionClick == inputs < MaxSelectionInputs /\ ClickEvent

DoubleClick == inputs < MaxSelectionInputs /\ DoubleClickEvent

Escape == inputs < MaxSelectionInputs /\ EscapeEvent

SelectionMagnitude == inputs < MaxSelectionInputs /\ MagnitudeEvent({ 0, 2 * SCALE })

SelectionApply == applies < MaxSelectionApplies /\ ApplyEvent

NextSelection ==
    SelectionFrame \/ SelectionClick \/ DoubleClick \/ Escape \/ SelectionMagnitude
        \/ SelectionApply

SpecSelection == InitSelection /\ [][NextSelection]_vars

\* ------------------------------------------------------------------------
\* Properties of the body
\* ------------------------------------------------------------------------
\* The velocity applyDeltaV tried, and the orbit computeOrbitFromStateVectors
\* gives for the position and that velocity
triedVx == FAdd(before.vx, last.args.dvx)

triedVy == FAdd(before.vy, last.args.dvy)

triedOrbit ==
    computeOrbitFromStateVectors([x |-> before.x, y |-> before.y],
                                 [vx |-> triedVx, vy |-> triedVy])

\* C1: when computeOrbitFromStateVectors gives null for the position and the
\* velocity plus the delta-v, applyDeltaV returns false and the body is, field
\* for field, the body it was before the call.
C1_FailedDeltaVChangesNothing ==
    (last.op = "applyDeltaV" /\ triedOrbit = null)
        => (last.result = FALSE /\ asteroid = before)

\* a failed applyDeltaV whose delta-v is not zero, on a body that has moved
C1_Witness ==
    /\ last.op = "applyDeltaV"
    /\ triedOrbit = null
    /\ last.result = FALSE
    /\ triedVx # before.vx
    /\ before.x # 0

\* C2: in every state of the body, after construction and after any sequence
\* of update, applyDeltaV and setOrbit, orbitPath is the path generated from
\* the current orbit and period is the period of the current semi-major axis.
C2_PathAndPeriodFollowOrbit ==
    /\ asteroid.orbitPath = generateOrbitPath(asteroid.orbit, ORBIT_PATH_POINTS)
    /\ asteroid.period = orbitalPeriod(asteroid.orbit.a)

\* a successful applyDeltaV that changed the orbit, its path and its period
C2_Witness ==
    /\ last.op = "applyDeltaV"
    /\ last.result = TRUE
    /\ asteroid.orbit # before.orbit
    /\ asteroid.orbitPath # before.orbitPath
    /\ asteroid.period # before.period
    /\ ~IsNaN(asteroid.period)

\* C5: when computeOrbitFromStateVectors gives an orbit for the position and
\* the velocity plus the delta-v, applyDeltaV returns true, the body's orbit
\* is that orbit, its velocity is the old velocity plus the delta-v and its
\* position is as before; applyDeltaV returns true in no other case.
C5_SuccessfulDeltaVCommits ==
    last.op = "applyDeltaV"
        => /\ last.result = TRUE <=> triedOrbit # null
           /\ triedOrbit # null
                => /\ asteroid.orbit = triedOrbit
                   /\ asteroid.vx = triedVx
                   /\ asteroid.vy = triedVy
                   /\ asteroid.x = before.x
                   /\ asteroid.y = before.y

\* a successful applyDeltaV with a delta-v that is not zero
C5_Witness ==
    /\ last.op = "applyDeltaV"
    /\ last.result = TRUE
    /\ asteroid.vx # before.vx
    /\ asteroid.orbit # before.orbit
    /\ ~IsNaN(asteroid.orbit.e)

\* C6: update(t) changes x, y, vx and vy and no other field: orbit, orbitPath,
\* period, radius, color and id are what they were before the call.
C6_UpdateKeepsOrbit ==
    last.op = "update"
        => [asteroid EXCEPT !.x = before.x, !.y = before.y,
                            !.vx = before.vx, !.vy = before.vy] = before

\* an update that moved the body and changed its velocity
C6_Witness ==
    /\ last.op = "update"
    /\ asteroid.x # before.x
    /\ asteroid.vx # before.vx
    /\ ~IsNaN(asteroid.x)

\* ------------------------------------------------------------------------
\* Properties of computeOrbitFromStateVectors
\* ------------------------------------------------------------------------
\* The specific orbital energy |v|^2 / 2 - MU / |r| of the last call
callEnergy ==
    specificEnergy(magnitude(call.r.x, call.r.y), magnitude(call.v.vx, call.v.vy))

callIsFinite ==
    ~IsNaN(call.r.x) /\ ~IsNaN(call.r.y) /\ ~IsNaN(call.v.vx) /\ ~IsNaN(call.v.vy)

\* C3: computeOrbitFromStateVectors returns null exactly when the specific
\* orbital energy |v|^2 / 2 - MU / |r| is at least zero, and a record of
\* a, e, omega and M0 in every other case.
C3_NullExactlyOnEscape ==
    call.made
        => /\ call.result = null <=> FGe(callEnergy, 0)
           /\ ~FGe(callEnergy, 0) => DOMAIN call.result = {"a", "e", "omega", "M0"}

\* a call at exactly the escape speed, where the energy is zero
C3_Witness ==
    /\ call.made
    /\ callIsFinite
    /\ callEnergy = 0
    /\ call.v.vy # 0
    /\ call.result = null

\* C4: every record computeOrbitFromStateVectors returns has a > 0 and
\* 0 <= e < 1, also for a zero or a purely radial velocity (h = 0). Stated
\* here for that case: finite state vectors, a position away from the origin,
\* a velocity that is zero or along the radius.
C4_ReturnedOrbitIsElliptic ==
    (/\ call.made
     /\ callIsFinite
     /\ magnitude(call.r.x, call.r.y) > 0
     /\ cross(call.r.x, call.r.y, call.v.vx, call.v.vy) = 0
     /\ call.result # null)
        => /\ call.result.a > 0
           /\ call.result.e >= 0
           /\ call.result.e < SCALE

\* ------------------------------------------------------------------------
\* Properties of the tree
\* ------------------------------------------------------------------------
\* Every node under a node, each with its path from that node
RECURSIVE nodesUnder(_, _)
nodesUnder(node, path) ==
    { <<path, node>> }
    \cup (IF node.divided
          THEN nodesUnder(node.northeast, Append(path, "northeast"))
               \cup nodesUnder(node.northwest, Append(path, "northwest"))
               \cup nodesUnder(node.southeast, Append(path, "southeast"))
               \cup nodesUnder(node.southwest, Append(path, "southwest"))
          ELSE {})

\* The places that hold an object: a node's path and an index of its list
holdersOf(obj) ==
    UNION { { <<n[1], k>> : k \in { j \in DOMAIN n[2].objects : n[2].objects[j] = obj } }
            : n \in nodesUnder(tree, <<>>) }

\* Every object inserted so far is inside the root's bounds and no two of
\* them share a position
distinctAndInside ==
    /\ \A k \in DOMAIN inserted : containsPoint(tree, inserted[k].obj.x, inserted[k].obj.y)
    /\ \A j, k \in DOMAIN inserted :
        (inserted[j].obj.x = inserted[k].obj.x /\ inserted[j].obj.y = inserted[k].obj.y)
            => j = k

C8_InsertFailsOnlyOutside ==
    \A k \in DOMAIN inserted :
        inserted[k].result = FALSE
            => ~containsPoint(tree, inserted[k].obj.x, inserted[k].obj.y)

\* C9: after any sequence of inserts, every object for which insert returned
\* true is held in the objects list of exactly one node of the tree.
C9_HeldInExactlyOneNode ==
    \A k \in DOMAIN inserted :
        inserted[k].result = TRUE => Cardinality(holdersOf(inserted[k].obj)) = 1

\* A leaf: not divided, no children, at most capacity objects
isLeaf(node) ==
    /\ ~node.divided
    /\ node.northeast = null /\ node.northwest = null
    /\ node.southeast = null /\ node.southwest = null
    /\ Len(node.objects) <= node.capacity

\* An internal node: divided, four children, no objects of its own
isInternal(node) ==
    /\ node.divided
    /\ node.northeast # null /\ node.northwest # null
    /\ node.southeast # null /\ node.southwest # null
    /\ node.objects = <<>>

\* The bounds of a node's four children
childBounds(node) ==
    <<node.northeast.bounds, node.northwest.bounds,
      node.southeast.bounds, node.southwest.bounds>>

\* C10: every node of the tree is a leaf (not divided, no children, at most
\* capacity objects) or an internal node (divided, four children, no objects
\* of its own); a node divided before an insert is, after it, still divided
\* and has the children it had, so it subdivides once and never reverts.
C10_LeafOrInternal ==
    /\ \A n \in nodesUnder(tree, <<>>) : isLeaf(n[2]) \/ isInternal(n[2])
    /\ \A b \in nodesUnder(rootBefore, <<>>) :
        b[2].divided
            => \E n \in nodesUnder(tree, <<>>) :
                /\ n[1] = b[1]
                /\ n[2].divided
                /\ childBounds(n[2]) = childBounds(b[2])

\* an insert into a tree that was already subdivided, which subdivided a child
C10_Witness ==
    /\ rootBefore.divided
    /\ \E n \in nodesUnder(tree, <<>>) :
        /\ Len(n[1]) = 1
        /\ n[2].divided
        /\ \A b \in nodesUnder(rootBefore, <<>>) : b[1] = n[1] => ~b[2].divided

\* ------------------------------------------------------------------------
\* Properties of generateOrbitPath
\* ------------------------------------------------------------------------
pathIsFinite(path) ==
    \A k \in DOMAIN path : ~IsNaN(path[k].x) /\ ~IsNaN(path[k].y)

\* C20: generateOrbitPath(orbit, numPoints) returns numPoints + 1 points, the
\* i-th at true anomaly i / numPoints * 2 * pi, and its first and last points
\* coincide exactly.  Stated for the path of the body, where it is finite.
C20_PathIsClosed ==
    pathIsFinite(asteroid.orbitPath)
        => /\ Len(asteroid.orbitPath) = ORBIT_PATH_POINTS + 1
           /\ \A k \in DOMAIN asteroid.orbitPath :
                asteroid.orbitPath[k]
                    = getPositionFromTrueAnomaly(asteroid.orbit,
                        FMul(FDiv((k - 1) * SCALE, ORBIT_PATH_POINTS * SCALE), TWO_PI))
           /\ asteroid.orbitPath[1] = asteroid.orbitPath[ORBIT_PATH_POINTS + 1]

\* ------------------------------------------------------------------------
\* Properties of solveKeplerEquation
\* ------------------------------------------------------------------------
\* Newton's step deltaE = (E - e sin E - M) / (1 - e cos E) at E, and E
\* after k steps from E, computed without regard to the tolerance
newtonDelta(M, e, E) ==
    FDiv(FSub(FSub(E, FMul(e, Sin(E))), M), FSub(SCALE, FMul(e, Cos(E))))

RECURSIVE newtonAfter(_, _, _, _)
newtonAfter(M, e, E, k) ==
    IF IsNaN(E) \/ k = 0 THEN E
    ELSE newtonAfter(M, e, FSub(E, newtonDelta(M, e, E)), k - 1)

\* the start the solver is to use: pi above eccentricity 0.8, else the
\* mean anomaly normalized to [0, 2*pi)
keplerStartOf(M, e) == IF e > (8 * SCALE) \div 10 THEN PI ELSE normalizeAngle(M)

\* step k from that start is below the tolerance
convergedAt(M, e, k) ==
    FLt(FAbs(newtonDelta(normalizeAngle(M), e,
                         newtonAfter(normalizeAngle(M), e, keplerStartOf(M, e), k - 1))),
        KEPLER_TOLERANCE)

C19_WitnessExhausted == kepler.made /\ kepler.iterations = KEPLER_MAX_ITERATIONS

\* ------------------------------------------------------------------------
\* Properties of maneuvers on a circular orbit
\* ------------------------------------------------------------------------
\* the last operation was applyDeltaV on a body of a circular orbit that
\* had been updated to the time handed to applyDeltaV
maneuverMade == last.op = "applyDeltaV" /\ before.orbit.e = 0 /\ ~IsNaN(before.vx)

deltaVMagnitude == magnitude(last.args.dvx, last.args.dvy)

\* along the velocity / against it
isPrograde == dot(last.args.dvx, last.args.dvy, before.vx, before.vy) > 0

isRetrograde == dot(last.args.dvx, last.args.dvy, before.vx, before.vy) < 0

radiusBefore == magnitude(before.x, before.y)

circularSpeed == FSqrt(FDiv(MU, radiusBefore))

escapeSpeed == FSqrt(FDiv(2 * MU, radiusBefore))

\* Speeds within this distance of a threshold are below what three
\* decimals decide
SpeedMargin == SCALE \div 200

\* the difference of two angles, brought into (-pi, pi]
angleBetween(p, q) ==
    IF normalizeAngle(FSub(p, q)) > PI THEN FSub(normalizeAngle(FSub(p, q)), TWO_PI)
    ELSE normalizeAngle(FSub(p, q))

\* equal within the tolerance: 1 percent of the semi-major axis, 0.01 of
\* eccentricity, 0.05 radians of the position along the orbit (omega + M0;
\* the two are not determined separately on a circular orbit)
sameOrbitWithin(new, old) ==
    /\ new # null
    /\ FAbs(FSub(new.a, old.a)) <= old.a \div 100
    /\ FAbs(FSub(new.e, old.e)) <= SCALE \div 100
    /\ FAbs(angleBetween(FAdd(new.omega, new.M0), FAdd(old.omega, old.M0))) <= SCALE \div 20

\* C16: a zero delta-v is the identity: on a body of a circular orbit
\* updated to any time t, applyDeltaV(0, 0, t) returns true and the orbit
\* it computes and stores equals the original within the tolerance.
C16_ZeroDeltaVIsIdentity ==
    (maneuverMade /\ last.args.dvx = 0 /\ last.args.dvy = 0)
        => /\ last.result
           /\ sameOrbitWithin(last.newOrbit, before.orbit)
           /\ sameOrbitWithin(asteroid.orbit, before.orbit)

\* C17: on a circular orbit of radius r, a prograde delta-v larger than
\* sqrt(2 MU / r) - sqrt(MU / r) gives no orbit, and so does every delta-v
\* after which speed^2 * r is at least 2 MU. Stated for delta-v beyond the
\* thresholds by more than the resolution.
C17_ProgradeEscape ==
    maneuverMade =>
        /\ (isPrograde /\ deltaVMagnitude > FSub(escapeSpeed, circularSpeed) + SpeedMargin)
              => (last.newOrbit = null /\ ~last.result)
        /\ FMul(FAdd(FMul(triedVx, triedVx), FMul(triedVy, triedVy)), radiusBefore)
                >= 2 * MU + (2 * MU) \div 100
              => (last.newOrbit = null /\ ~last.result)

\* a prograde delta-v of 0.42 times the circular speed, which is beyond the
\* threshold by less than a hundredth of the speed, gave no orbit
C17_Witness ==
    /\ maneuverMade
    /\ isPrograde
    /\ deltaVMagnitude > FSub(escapeSpeed, circularSpeed) + SpeedMargin
    /\ deltaVMagnitude < FSub(escapeSpeed, circularSpeed) + 4 * SpeedMargin
    /\ last.newOrbit = null
    /\ ~last.result
    /\ asteroid = before

\* the body of the scenario: a = 500, e = 0, omega = 0, M0 = 0 at t = 0
scenarioManeuver ==
    /\ maneuverMade
    /\ before.orbit = [a |-> 500 * SCALE, e |-> 0, omega |-> 0, M0 |-> 0]
    /\ last.args.t = 0

\* C18 as stated: on the body of the scenario every retrograde delta-v
\* larger than the circular speed makes applyDeltaV return false.
C18_RetrogradeAlwaysFails ==
    (scenarioManeuver /\ isRetrograde /\ deltaVMagnitude > circularSpeed)
        => ~last.result

\* C18: on the body of the scenario a retrograde delta-v makes applyDeltaV
\* return false when the speed it leaves, |dv| minus the circular speed, is
\* at least the escape speed sqrt(2 MU / r), and true when it is larger
\* than the circular speed and leaves less than the escape speed (beyond
\* the thresholds by more than the resolution).
C18_RetrogradeFailsFromEscapeSpeed ==
    (scenarioManeuver /\ isRetrograde)
        => /\ deltaVMagnitude >= FAdd(circularSpeed, escapeSpeed) + SpeedMargin
                => (~last.result /\ asteroid = before)
           /\ (/\ deltaVMagnitude > circularSpeed
               /\ deltaVMagnitude <= FAdd(circularSpeed, escapeSpeed) - SpeedMargin)
                => (last.result /\ asteroid.orbit = last.newOrbit /\ asteroid.orbit # null)

\* a retrograde delta-v of 2.5 times the circular speed made applyDeltaV
\* return false
C18_Witness ==
    /\ scenarioManeuver
    /\ isRetrograde
    /\ deltaVMagnitude >= FAdd(circularSpeed, escapeSpeed) + SpeedMargin
    /\ deltaVMagnitude < 3 * circularSpeed
    /\ ~last.result

\* ------------------------------------------------------------------------
\* Properties of the pick
\* ------------------------------------------------------------------------
\* the bodies held by the nodes of the index
indexedBodies ==
    IF quadtree = null THEN {}
    ELSE UNION { { n[2].objects[k] : k \in DOMAIN n[2].objects }
                 : n \in nodesUnder(quadtree, <<>>) }

\* the indexed bodies that pass the exact hit test at the point picked
bodiesHit == { obj \in indexedBodies : hitTest(obj, picked.worldX, picked.worldY, picked.tolerance) }

\* obj is at most as far from the point picked as other, by squared distance
atMostAsFar(obj, other) ==
    sumAtMost(squareHigh(Abs(obj.x - picked.worldX)) + squareHigh(Abs(obj.y - picked.worldY)),
              squareLow(Abs(obj.x - picked.worldX)) + squareLow(Abs(obj.y - picked.worldY)),
              squareHigh(Abs(other.x - picked.worldX)) + squareHigh(Abs(other.y - picked.worldY)),
              squareLow(Abs(other.x - picked.worldX)) + squareLow(Abs(other.y - picked.worldY)))

\* C11: findAsteroidAt(x, y, tolerance) answers as a scan of all indexed
\* bodies with the exact hit test does: null exactly when no indexed body
\* passes the test, else a body that passes it and is at minimum distance
\* among those that do; for bodies of any radius and either order of
\* insertion.
C11_PickIsExactScan ==
    picked.made =>
        /\ picked.result = null <=> bodiesHit = {}
        /\ picked.result # null =>
              /\ picked.result \in bodiesHit
              /\ \A other \in bodiesHit : atMostAsFar(picked.result, other)

\* ------------------------------------------------------------------------
\* Properties of the simulation and the panel
\* ------------------------------------------------------------------------
\* C12: after every simulation step every body of the simulation is held
\* by the rebuilt index, whatever maneuvers were applied through the panel.
\* (Between two steps the bodies do not move, so it is stated for every
\* state in which the index exists.)
C12_EveryBodyIndexed ==
    quadtree # null
        => \A k \in DOMAIN asteroids : reference(asteroids[k]) \in indexedBodies

\* the body the panel holds
panelBody == asteroids[panel.asteroid.id + 1]

\* C13: the orbit the click on Apply hands to setOrbit is the orbit
\* computeOrbitFromStateVectors gives for the selected body's position and
\* velocity at the click plus the chosen delta-v, however many frames ran
\* since the last input.
C13_CommitAsPreviewAtCommit ==
    (event.op = "apply" /\ event.calls # <<>>)
        => event.calls[1].orbit
              = orbitWithDeltaV(event.bodyBefore, FMul(event.magnitude, DELTA_V_SCALE),
                                panel.direction)

\* the panel shows the escape outcome
showsEscape ==
    /\ panel.projectedOrbit = null
    /\ panel.projectedPath = null
    /\ projectedOrbitPath = null
    /\ panel.info = EscapeInfo
    /\ panel.info # NoInfo
    /\ panel.applyDisabled

\* C14: when computeOrbitFromStateVectors returned no orbit for the delta-v
\* chosen, the panel holds no projected orbit and no path, shows the escape
\* text (which is not what it shows without a delta-v) and disables Apply;
\* a click on Apply then calls neither onApply nor setOrbit and the body's
\* orbit is what it was.
C14_EscapeIsReportedAndNotApplied ==
    /\ (event.op # "apply" /\ event.computed /\ event.newOrbit = null) => showsEscape
    /\ (event.op = "apply" /\ event.wasEscape)
          => /\ event.calls = <<>>
             /\ event.onApply = 0
             /\ panelBody.orbit = event.orbitBefore
             /\ showsEscape

\* Apply was clicked while the panel showed an escape
C14_Witness ==
    /\ event.op = "apply"
    /\ event.wasEscape
    /\ ~event.repeated
    /\ event.magnitude = MAX_DELTA_V
    /\ panelBody.orbit = generateAsteroids[1].orbit

\* C15: one click on Apply makes at most one setOrbit call, a commit clears
\* the projected orbit, and a click on Apply that follows another with no
\* input in between makes no setOrbit call and leaves the orbit as it was.
C15_OneReplacementPerManeuver ==
    event.op = "apply"
        => /\ Len(event.calls) <= 1
           /\ event.onApply = Len(event.calls)
           /\ event.calls # <<>> => (panel.projectedOrbit = null /\ panel.magnitude = 0)
           /\ event.repeated
                => /\ event.calls = <<>>
                   /\ panel.asteroid # null => panelBody.orbit = event.orbitBefore

\* Apply was clicked twice in a row on a selected body and the first click
\* had replaced the orbit
C15_Witness ==
    /\ event.op = "apply"
    /\ event.repeated
    /\ panel.asteroid # null
    /\ panelBody.orbit # generateAsteroids[1].orbit
    /\ event.calls = <<>>

\* ------------------------------------------------------------------------
\* Properties of a maneuver in flight
\* ------------------------------------------------------------------------
\* the last operation was applyDeltaV(0, 0, t) on a body updated to t: the
\* orbit it computed is computeOrbitFromStateVectors of getPositionAtTime
\* and getVelocityAtTime of the body's orbit at t
roundTripMade ==
    /\ last.op = "applyDeltaV"
    /\ last.args.dvx = 0
    /\ last.args.dvy = 0
    /\ ~IsNaN(before.vx)

\* a and e of the orbit computed are those of the original, within 2 percent
\* of the semi-major axis and 0.02 of eccentricity (what three decimals of
\* the velocity leave of them)
sameShapeWithin(new, old) ==
    /\ new # null
    /\ FAbs(FSub(new.a, old.a)) <= old.a \div 50
    /\ FAbs(FSub(new.e, old.e)) <= SCALE \div 50

\* Angles within this distance are equal at the resolution (0.1 radians)
AngleMargin == SCALE \div 10

\* omega is the original's, and M0 the original's mean anomaly at t
sameAnglesAt(new, old, t) ==
    /\ FAbs(angleBetween(new.omega, old.omega)) <= AngleMargin
    /\ FAbs(angleBetween(new.M0, meanAnomalyAtTime(old, t))) <= AngleMargin

\* omega + M0 is the original's omega plus its mean anomaly at t
samePlaceAt(new, old, t) ==
    FAbs(angleBetween(FAdd(new.omega, new.M0),
                      FAdd(old.omega, meanAnomalyAtTime(old, t)))) <= AngleMargin

\* C21 as stated: for every orbit with 0 <= e < 1 and every t, the orbit
\* computed from the position and the velocity at t has the original's a, e
\* and omega, and as M0 the original's mean anomaly at t.
C21_RoundTripOfEveryOrbit ==
    roundTripMade
        => /\ sameShapeWithin(last.newOrbit, before.orbit)
           /\ sameAnglesAt(last.newOrbit, before.orbit, last.args.t)

\* C21: for every orbit with 0 < e < 1 and every t, the orbit computed from
\* the position and the velocity at t has the original's a, e and omega,
\* and as M0 the original's mean anomaly at t; for e = 0 it has the
\* original's a and e, and omega + M0 is the original's omega plus its mean
\* anomaly at t.
C21_RoundTripOfEllipse ==
    roundTripMade
        => /\ sameShapeWithin(last.newOrbit, before.orbit)
           /\ samePlaceAt(last.newOrbit, before.orbit, last.args.t)
           /\ before.orbit.e > 0
                => sameAnglesAt(last.newOrbit, before.orbit, last.args.t)

\* the round trip was made on an ellipse of eccentricity 0.1 with omega = 4
\* at t = 1000
C21_Witness ==
    /\ roundTripMade
    /\ before.orbit.e = SCALE \div 10
    /\ before.orbit.omega = 4 * SCALE
    /\ last.args.t = 1000 * SCALE
    /\ last.result
    /\ asteroid.orbit = last.newOrbit

\* ------------------------------------------------------------------------
\* Properties of the value solveKeplerEquation returns
\* ------------------------------------------------------------------------
\* the call was made with e in [0, 0.99) and M in [0, 2*pi)
keplerInRange ==
    /\ kepler.made
    /\ FGe(kepler.e, 0)
    /\ FLt(kepler.e, (99 * SCALE) \div 100)
    /\ FGe(kepler.M, 0)
    /\ FLt(kepler.M, TWO_PI)

\* |E - e sin(E) - M| of the value returned
keplerResidual ==
    FAbs(FSub(FSub(kepler.E, FMul(kepler.e, Sin(kepler.E))), kepler.M))

\* A step below the tolerance is a residual below (1 - e cos E) times the
\* tolerance, which is less than twice the tolerance
ResidualBound == 2 * KEPLER_TOLERANCE

\* C22: for e in [0, 0.99) and M in [0, 2*pi) the solver stops before its
\* last iteration and the E it returns satisfies E - e sin(E) = M within
\* the solver tolerance.
C22_KeplerRoundTrip ==
    keplerInRange
        => /\ kepler.iterations < KEPLER_MAX_ITERATIONS
           /\ keplerResidual <= ResidualBound

\* the solver was called with e = 0.9 and M = 0.1, where the start pi is
\* far from the root, and took several iterations
C22_Witness ==
    /\ keplerInRange
    /\ kepler.e = (9 * SCALE) \div 10
    /\ kepler.M = SCALE \div 10
    /\ kepler.iterations > 2
    /\ keplerResidual <= ResidualBound

\* ------------------------------------------------------------------------
\* Properties of orbitalPeriod
\* ------------------------------------------------------------------------
\* the body's orbit was replaced: the period before is orbitalPeriod of the
\* semi-major axis before, the period now that of the semi-major axis now
periodPair ==
    /\ last.op = "setOrbit"
    /\ before.period = orbitalPeriod(before.orbit.a)
    /\ asteroid.period = orbitalPeriod(asteroid.orbit.a)

C23_WitnessSameAxis ==
    /\ periodPair
    /\ before.orbit.a = asteroid.orbit.a
    /\ before.orbit # asteroid.orbit
    /\ before.period = asteroid.period

\* the body was updated to t, applyDeltaV at t returned true, and the body
\* was updated to the same t again
updatedAfterManeuver ==
    /\ last.op = "updateAgain"
    /\ last.result
    /\ ~IsNaN(before.x)
    /\ ~IsNaN(before.y)

\* the body is where it was when the maneuver was applied, within a
\* twentieth of the semi-major axis of its orbit
inPlaceAfterManeuver ==
    /\ FAbs(FSub(asteroid.x, before.x)) <= asteroid.orbit.a \div 20
    /\ FAbs(FSub(asteroid.y, before.y)) <= asteroid.orbit.a \div 20

\* C24: after a successful applyDeltaV at time t, update(t) at the same t
\* places the body at the position it had when the maneuver was applied,
\* for any t.
C24_ManeuverKeepsPosition ==
    updatedAfterManeuver => inPlaceAfterManeuver

\* ------------------------------------------------------------------------
\* Properties of the depth of the tree
\* ------------------------------------------------------------------------
\* the number of inserted objects at the position of the k-th one
sharingPosition(k) ==
    Cardinality({ j \in DOMAIN inserted :
                    /\ inserted[j].obj.x = inserted[k].obj.x
                    /\ inserted[j].obj.y = inserted[k].obj.y })

\* the nodes at the greatest depth of the tree
deepestNodes ==
    { n \in nodesUnder(tree, <<>>) :
        \A m \in nodesUnder(tree, <<>>) : Len(m[1]) <= Len(n[1]) }

\* C25: insert returns after a recursion of bounded depth for every sequence
\* of inserts, more than capacity objects at one position included: no node
\* lies deeper than the number of halvings that take the root's width to
\* nothing, and only a node of positive width is subdivided.
C25_InsertDepthIsBounded ==
    \A n \in nodesUnder(tree, <<>>) :
        /\ Len(n[1]) <= Levels + 1
        /\ n[2].divided => (n[2].bounds.width > 0 /\ n[2].bounds.height > 0)
        /\ n[2].bounds.width * (2 ^ Len(n[1])) <= RootBounds.width

\* more than capacity objects were inserted at one position inside the
\* bounds, the last insert returned, and the tree is subdivided down to
\* children of no width
C25_Witness ==
    /\ \E k \in DOMAIN inserted :
        /\ sharingPosition(k) > Capacity
        /\ containsPoint(tree, inserted[k].obj.x, inserted[k].obj.y)
    /\ inserted[Len(inserted)].result = FALSE
    /\ \E n \in deepestNodes : Len(n[1]) = Levels + 1 /\ n[2].bounds.width = 0

\* ------------------------------------------------------------------------
\* Properties of subdivide
\* ------------------------------------------------------------------------
\* the points of the grid, those on the root's right and lower edge and
\* beyond included
GridPoints == { <<x, y>> : x \in (0 - 1)..(RootWidth + 1), y \in (0 - 1)..(RootWidth + 1) }

\* the children of a divided node that contain the point
childrenContaining(node, p) ==
    { c \in { node.northeast, node.northwest, node.southeast, node.southwest } :
        containsPoint(c, p[1], p[2]) }

\* C26: the four children of every divided node partition its region: a
\* point the node contains is contained in exactly one child, and a point
\* the node does not contain is contained in none.
C26_ChildrenPartitionParent ==
    \A n \in nodesUnder(tree, <<>>) :
        n[2].divided
            => \A p \in GridPoints :
                IF containsPoint(n[2], p[1], p[2])
                THEN Cardinality(childrenContaining(n[2], p)) = 1
                ELSE childrenContaining(n[2], p) = {}

\* ------------------------------------------------------------------------
\* Properties of the pointer
\* ------------------------------------------------------------------------
\* C28: a click is told apart from a pan. At a click event before which the
\* pointer was, while the button was held, more than 3 pixels in x or in y
\* away from where the button went down, hasDragged is true and the click
\* leaves the selection as it was; and right after a left-button mouse-down
\* hasDragged is false.
C28_DragIsNotAClick ==
    /\ (mouse.click.made /\ mouse.click.movedAway)
            => /\ mouse.click.hasDragged
               /\ ~mouse.click.handled
               /\ mouse.click.selectedAfter = mouse.click.selectedBefore
    /\ (mouse.button = LeftButton /\ mouse.movesHeld = 0) => ~camera.hasDragged

\* ------------------------------------------------------------------------
\* Properties of the selection
\* ------------------------------------------------------------------------
\* the objects the index holds
indexedObjects ==
    IF quadtree = null THEN {}
    ELSE UNION { { n[2].objects[k] : k \in DOMAIN n[2].objects } : n \in nodesUnder(quadtree, <<>>) }

\* C27: the index is built from the bodies' current positions. Every object
\* the index holds is at the position its body has now, in every state and
\* so at every pick; the index is the one rebuildQuadtree makes of the bodies
\* as they are; and before the first frame there is no index and a pick
\* returns null.
C27_IndexHoldsCurrentPositions ==
    /\ \A obj \in indexedObjects :
            /\ obj.x = asteroids[obj.id + 1].x
            /\ obj.y = asteroids[obj.id + 1].y
    /\ frames > 0 => quadtree = rebuildQuadtree(asteroids, worldBounds)
    /\ frames = 0 => (quadtree = null /\ picked.result = null)

\* a pick after the second frame, with a maneuver committed before it,
\* found a body
C27_Witness ==
    /\ frames = 2
    /\ applies > 0
    /\ event.op \in { "click", "dblclick" }
    /\ picked.made
    /\ picked.result # null
    /\ asteroids[picked.result.id + 1].x = picked.result.x
    /\ indexedObjects # {}

\* a pick before the first frame
C27_WitnessNoIndex == frames = 0 /\ picked.made /\ picked.result = null

\* the panel's asteroid is the selected one, and the panel is shown for a
\* selection and not for none
panelFollowsSelection ==
    /\ panel.asteroid = selectedAsteroid
    /\ selectedAsteroid # null => panel.visibility = Shown
    /\ selectedAsteroid = null => panel.visibility # Shown

\* a click, double click or Escape press: it calls onSelectionChange, whose
\* effect on the panel is that of show() or hide(), when the selection
\* changes, and leaves the panel as it is when it does not
selectionStep ==
    (inputs' = inputs + 1 /\ event'.op \in { "click", "dblclick", "escape" })
        => IF selectedAsteroid' # selectedAsteroid
           THEN panel' = onSelectionChange(panel, asteroids, selectedAsteroid').panel
           ELSE panel' = panel

\* C29: after any sequence of clicks, double clicks and Escape presses the
\* panel's asteroid is the selected asteroid (both null, or the same body)
\* and the panel is shown exactly for a selection; each of these events
\* shows or hides the panel when it changes the selection, and leaves the
\* panel as it is, delta-v and projection included, when it selects the
\* body already selected.
C29_PanelFollowsSelection == [](panelFollowsSelection) /\ [][selectionStep]_vars

\* the selected body was clicked again while the panel held a projection
\* for it, and the projection is still there
C29_Witness ==
    /\ event.op \in { "click", "dblclick" }
    /\ selectedAsteroid # null
    /\ picked.result # null
    /\ panel.asteroid = selectedAsteroid
    /\ panel.magnitude # 0
    /\ panel.projectedOrbit # null

\* the selection went from one body to the other
C29_WitnessOtherBody ==
    /\ event.op \in { "click", "dblclick" }
    /\ selectedAsteroid = [id |-> 1]
    /\ panel.asteroid = [id |-> 1]
    /\ inputs = 2
    /\ picked.result # null
    /\ frames > 0

\* the panel holds a projection only for a selected body and a delta-v,
\* with its path, and the simulation draws that path
projectionIsOfSelection ==
    /\ panel.projectedOrbit # null
            => /\ panel.asteroid # null
               /\ panel.asteroid = selectedAsteroid
               /\ panel.magnitude # 0
    /\ (panel.projectedPath # null) <=> (panel.projectedOrbit # null)
    /\ projectedOrbitPath = panel.projectedPath

\* a projection the panel holds after a step is the one it held before, for
\* the same asteroid, or the one updateProjection computes from the
\* asteroid the panel then has
projectionOfSameBody ==
    panel'.projectedOrbit # null
        => \/ (panel'.projectedOrbit = panel.projectedOrbit /\ panel'.asteroid = panel.asteroid)
           \/ /\ panel'.asteroid # null
              /\ panel'.projectedOrbit =
                    orbitWithDeltaV(asteroids[panel'.asteroid.id + 1],
                                    FMul(panel'.magnitude, DELTA_V_SCALE), panel'.direction)

\* a step that changes the selection leaves no projection
selectionClearsProjection ==
    selectedAsteroid' # selectedAsteroid => panel'.projectedOrbit = null

\* a click on Apply changes no body but the panel's, whose orbit becomes the
\* projection the panel held
applyCommitsToSameBody ==
    applies' = applies + 1
        => IF panel.asteroid # null /\ panel.projectedOrbit # null
           THEN /\ asteroids'[panel.asteroid.id + 1].orbit = panel.projectedOrbit
                /\ \A k \in DOMAIN asteroids :
                        k # panel.asteroid.id + 1 => asteroids'[k] = asteroids[k]
           ELSE asteroids' = asteroids

C30_WitnessProjected ==
    /\ selectedAsteroid = [id |-> 1]
    /\ panel.projectedOrbit # null
    /\ panel.magnitude # 0
    /\ projectedOrbitPath # null

\* Apply committed the projection
C30_WitnessApplied ==
    /\ event.op = "apply"
    /\ event.onApply = 1
    /\ event.hadProjection
    /\ event.calls[1].asteroid = selectedAsteroid
====
